---------------------------- MODULE Spec2Model ----------------------------
(***************************************************************************)
(* Payment-gated vote execution (x402) of futarchy402-mcp.                 *)
(*                                                                         *)
(* One vote attempt is one call of executeVote.  The attempt is modelled   *)
(* at the granularity of its awaits: every action is the arrival of the    *)
(* answer to the pending asynchronous call together with all synchronous   *)
(* code that runs up to (and including the issuing of) the next await.     *)
(* JavaScript objects are functions whose DOMAIN is the set of keys that   *)
(* are present; an absent key is JavaScript's undefined.                   *)
(***************************************************************************)
EXTENDS Naturals, Sequences, FiniteSets, TLC

(***************************************************************************)
(* Bounds of the model                                                     *)
(***************************************************************************)
\* longest accepts list the server offers
MaxAccepts == 2
\* the server quotes AmountUnit * k smallest units, k in 1..MaxAmountUnits
MaxAmountUnits == 3
AmountUnit == 3500000

(***************************************************************************)
(* Values of the environment                                               *)
(***************************************************************************)
Has(obj, key) == key \in DOMAIN obj

\* JavaScript truthiness of obj[key] for string-valued keys: undefined and ""
\* are falsy
Truthy(obj, key) == Has(obj, key) /\ obj[key] # ""

\* String.prototype.includes
Includes(s, sub) ==
    \E i \in 1..(Len(s) + 1 - Len(sub)) : SubSeq(s, i, i + Len(sub) - 1) = sub

PollIds == {"poll-1", "poll-2"}
Sides == {"yes", "no"}
ApiBaseUrl == "https://test-api.example.com"

\* caller-supplied slippage, in thousandths, and its rendering by `${slippage}`
Slippages == {50, 100}
NumberText(n) == CASE n = 50 -> "0.05" [] n = 100 -> "0.1" [] OTHER -> ToString(n)

\* base58 secret keys the caller may pass; only the first decodes to a keypair
WalletKeys == {"5Jalice", "invalid-key"}

Variants == {"direct", "facilitator"}

\* VoteParams (client.ts 158-165, 431-438): slippage is optional
ParamSets ==
    LET core == [variant : Variants, pollId : PollIds, side : Sides,
                 walletPrivateKey : WalletKeys]
    IN  core \cup {c @@ [slippage |-> s] : c \in core, s \in Slippages}

\* addresses that new PublicKey() accepts; PollPda lies off the ed25519 curve
ValidAddresses == {"MintUSDC", "FeePayer", "PollWallet", "PollPda", "Alice"}
OffCurve == {"PollPda"}

Schemes == {"solana", "exact", "ethereum"}
Networks == {"solana-devnet", "Solana-Devnet", "solana-testnet", "mainnet", "base"}

Amounts == {AmountUnit * k : k \in 1..MaxAmountUnits}
AmountTexts == {ToString(n) : n \in Amounts}

\* The part of a requirement that the scheme/network test does not read:
\* the well-formed ones for every amount, and one defect at a time.
PaymentDetails ==
    LET good == [payTo |-> "PollWallet", asset |-> "MintUSDC",
                 maxAmountRequired |-> ToString(AmountUnit),
                 extra |-> [feePayer |-> "FeePayer"]]
        core == [payTo |-> "PollWallet", maxAmountRequired |-> ToString(AmountUnit)]
    IN  {[good EXCEPT !.maxAmountRequired = a] : a \in AmountTexts}
        \cup {[good EXCEPT !.maxAmountRequired = "1.5"]}
        \cup {[good EXCEPT !.asset = ""], [good EXCEPT !.asset = "not-an-address"]}
        \cup {core @@ [extra |-> [feePayer |-> "FeePayer"]]}
        \cup {core @@ [asset |-> "MintUSDC"]}
        \cup {[good EXCEPT !.extra = [quotedAt |-> "now"]]}
        \cup {[good EXCEPT !.extra = [feePayer |-> "Alice"]]}
        \cup {[good EXCEPT !.payTo = "PollPda"]}

\* entries of X402Response.accepts (client.ts 170-181); network may be absent
Requirements ==
    {[scheme |-> s] @@ d : s \in Schemes, d \in PaymentDetails}
    \cup {[scheme |-> s, network |-> n] @@ d :
            s \in Schemes, n \in Networks, d \in PaymentDetails}

\* what the server may list after the first entry
TailRequirements ==
    {[scheme |-> s, network |-> n, payTo |-> "PollWallet", asset |-> "MintUSDC",
      maxAmountRequired |-> ToString(AmountUnit), extra |-> [feePayer |-> "FeePayer"]] :
        s \in {"exact"}, n \in {"solana-devnet", "base"}}

RECURSIVE TailLists(_)
TailLists(n) ==
    IF n = 0 THEN {<<>>}
    ELSE LET shorter == TailLists(n - 1)
         IN  shorter \cup {Append(t, r) : t \in {s \in shorter : Len(s) = n - 1},
                                          r \in TailRequirements}

AcceptLists ==
    {<<>>} \cup {<<h>> \o t : h \in Requirements, t \in TailLists(MaxAccepts - 1)}

\* parsed bodies of a 402 answer (client.ts 167-182)
Challenges ==
    {[x402Version |-> "1", resource |-> "vote"]}
    \cup {[x402Version |-> "1", resource |-> "vote", accepts |-> a] : a \in AcceptLists}


(***************************************************************************)
(* HTTP bodies and JSON                                                    *)
(***************************************************************************)
VoteAcceptedText == "{\"vote_id\":\"vote-1\",\"transaction_signature\":\"sig-1\",...}"
VoteAcceptedAtQuoteText == "{\"vote_id\":\"vote-2\",...,\"actual_slippage\":0,...}"
ErrorDetailText == "{\"error\":\"Invalid side parameter\"}"
EmptyObjectText == "{}"
NotJsonText == "<html>Bad Gateway</html>"

BodyTexts == {VoteAcceptedText, VoteAcceptedAtQuoteText, ErrorDetailText,
              EmptyObjectText, NotJsonText}
JsonTexts == {VoteAcceptedText, VoteAcceptedAtQuoteText, ErrorDetailText,
              EmptyObjectText}

\* a JavaScript number that is a ratio of two integers; NaN has d = 0
Fraction(n, d) == [n |-> n, d |-> d]
NaN == Fraction(0, 0)

\* JSON.parse on the bodies above
JsonValue(text) ==
    CASE text = VoteAcceptedText ->
            [vote_id |-> "vote-1", transaction_signature |-> "sig-1",
             amount_paid_usdc_base_units |-> "10500000",
             quoted_amount_usdc_base_units |-> "10000000",
             actual_slippage |-> Fraction(1, 20), voter_pubkey |-> "Alice",
             side |-> "yes", poll_id |-> "poll-1",
             timestamp |-> "2025-01-01T00:00:00Z"]
      [] text = VoteAcceptedAtQuoteText ->
            [vote_id |-> "vote-2", transaction_signature |-> "sig-2",
             amount_paid_usdc_base_units |-> "3500000",
             quoted_amount_usdc_base_units |-> "3500000",
             actual_slippage |-> Fraction(0, 1), voter_pubkey |-> "Alice",
             side |-> "no", poll_id |-> "poll-2",
             timestamp |-> "2025-01-02T00:00:00Z"]
      [] text = ErrorDetailText -> [error |-> "Invalid side parameter"]
      [] text = EmptyObjectText -> <<>>

\* JSON.stringify of a parsed body: the text that parses to it
JsonStringify(value) == CHOOSE t \in JsonTexts : JsonValue(t) = value

\* JSON.stringify(requirement): the keys present, in order
StringifyRequirement(r) ==
    LET field(k) == IF Has(r, k) THEN ",\"" \o k \o "\":\"" \o r[k] \o "\"" ELSE ""
        extra == IF ~Has(r, "extra") THEN ""
                 ELSE IF Has(r.extra, "feePayer")
                      THEN ",\"extra\":{\"feePayer\":\"" \o r.extra.feePayer \o "\"}"
                      ELSE ",\"extra\":{\"quotedAt\":\"" \o r.extra.quotedAt \o "\"}"
    IN  "{\"scheme\":\"" \o r.scheme \o "\"" \o field("network") \o field("payTo")
            \o field("asset") \o field("maxAmountRequired") \o extra \o "}"

\* response.ok of node-fetch
ResponseOk(status) == status >= 200 /\ status <= 299

InitialStatuses == {200, 400, 402, 403, 404, 500}
PaymentStatuses == {200, 400, 409, 500}
\* reasons node-fetch gives when the request itself fails
TransportReasons == {"ETIMEDOUT", "ECONNRESET"}

(***************************************************************************)
(* Thrown errors and the value executeVote returns                         *)
(***************************************************************************)
Ok(value) == [threw |-> FALSE, value |-> value]
Throw(message) == [threw |-> TRUE, message |-> message]

FetchErrorMessage(url, reason) == "request to " \o url \o " failed, reason: " \o reason
InvalidJsonMessage(url) == "invalid json response body at " \o url

\* response.json()
ResponseJson(url, text) ==
    IF text \in JsonTexts THEN Ok(JsonValue(text)) ELSE Throw(InvalidJsonMessage(url))

Unset == <<>>


\* variant: the catch clause passes the message on as it is
CatchResultNoFallback(message) == [success |-> FALSE, error |-> message]

\* the catch clause of executeVote
CatchResult(message) ==
    [success |-> FALSE,
     error |-> IF message # "" THEN message ELSE "Unknown error during vote execution"]

\* variant: the parsed body is spread into the returned object
SuccessResultSpread(body) ==
    [k \in DOMAIN body \cup {"success"} |-> IF k = "success" THEN TRUE ELSE body[k]]

\* the object literal executeVote returns after a 2xx answer: a field of the
\* body that is undefined stays undefined in the result
SuccessResult(body) ==
    LET fields == {"vote_id", "transaction_signature", "amount_paid_usdc_base_units",
                   "quoted_amount_usdc_base_units", "actual_slippage", "voter_pubkey",
                   "side", "poll_id", "timestamp"}
        present == fields \cap DOMAIN body
    IN  [k \in present \cup {"success"} |-> IF k = "success" THEN TRUE ELSE body[k]]

(***************************************************************************)
(* wallet.ts                                                               *)
(***************************************************************************)
\* variant: the failure message repeats the string that did not decode
decodeWalletPrivateKeyEchoing(privateKey) ==
    CASE privateKey = "5Jalice" -> Ok([secretKey |-> "sk-alice", publicKey |-> "Alice"])
      [] OTHER -> Throw("Invalid wallet private key: " \o privateKey)

\* bs58.decode followed by Keypair.fromSecretKey
decodeWalletPrivateKey(privateKey) ==
    CASE privateKey = "5Jalice" -> Ok([secretKey |-> "sk-alice", publicKey |-> "Alice"])
      [] privateKey = "invalid-key" ->
            Throw("Invalid wallet private key: " \o "Non-base58 character")
      [] OTHER -> Throw("Invalid wallet private key: " \o "bad secret key size")

\* String.prototype.toLowerCase on the network names of the model
ToLowerCase(s) == CASE s = "Solana-Devnet" -> "solana-devnet" [] OTHER -> s

getSolanaRpcUrl(network) ==
    LET normalizedNetwork == ToLowerCase(network)
    IN  IF normalizedNetwork = "devnet" \/ normalizedNetwork = "solana-devnet"
        THEN Ok("https://api.devnet.solana.com")
        ELSE IF \/ normalizedNetwork = "mainnet"
                \/ normalizedNetwork = "solana-mainnet"
                \/ normalizedNetwork = "mainnet-beta"
                \/ normalizedNetwork = "solana"
             THEN Ok("https://api.mainnet-beta.solana.com")
             ELSE Throw("Unsupported network: " \o network)

(***************************************************************************)
(* Negotiation: client.ts 232-264                                          *)
(***************************************************************************)
VoteUrl(p) ==
    ApiBaseUrl \o "/poll/" \o p.pollId \o "/vote?side=" \o p.side \o "&slippage="
        \o NumberText(IF Has(p, "slippage") THEN p.slippage ELSE 50)

\* "Use the first accepted payment method"
SelectRequirement(x402) == x402.accepts[1]

isSolanaPayment(requirement) ==
    \/ requirement.scheme = "solana"
    \/ requirement.scheme = "exact"
    \/ (Has(requirement, "network") /\ Includes(requirement.network, "solana"))

NoPaymentMethodsMessage == "No payment methods accepted in x402 response"
UnsupportedSchemeMessage(requirement) ==
    "Unsupported payment scheme: " \o requirement.scheme
        \o ". Full requirement: " \o StringifyRequirement(requirement)
MissingMintMessage(requirement) ==
    "Missing token mint address in payment requirement: "
        \o StringifyRequirement(requirement)

\* variant: the network is resolved before the asset is looked at
ValidateRequirementNetworkFirst(requirement) ==
    IF ~isSolanaPayment(requirement)
    THEN Throw(UnsupportedSchemeMessage(requirement))
    ELSE IF ~Has(requirement, "network")
    THEN Throw("Cannot read properties of undefined (reading 'toLowerCase')")
    ELSE LET rpc == getSolanaRpcUrl(requirement.network)
         IN  IF rpc.threw THEN rpc
             ELSE IF ~Truthy(requirement, "asset")
             THEN Throw(MissingMintMessage(requirement))
             ELSE IF requirement.asset \notin ValidAddresses
             THEN Throw("Invalid public key input")
             ELSE rpc

\* lines 242-264: the checks on the selected requirement up to the first ledger
\* call; the value is the RPC endpoint of the Connection
ValidateRequirement(requirement) ==
    IF ~isSolanaPayment(requirement)
    THEN Throw(UnsupportedSchemeMessage(requirement))
    ELSE IF ~Truthy(requirement, "asset")
    THEN Throw(MissingMintMessage(requirement))
    ELSE IF ~Has(requirement, "network")
    THEN Throw("Cannot read properties of undefined (reading 'toLowerCase')")
    ELSE LET rpc == getSolanaRpcUrl(requirement.network)
         IN  IF rpc.threw THEN rpc
             ELSE IF requirement.asset \notin ValidAddresses
             THEN Throw("Invalid public key input")
             ELSE rpc

\* variant: an empty or missing accepts list falls back to a default requirement
NegotiateWithDefault(x402) ==
    LET requirement ==
            IF ~Has(x402, "accepts") \/ Len(x402.accepts) = 0
            THEN [scheme |-> "solana", network |-> "solana-devnet",
                  payTo |-> "PollWallet", asset |-> "MintUSDC",
                  maxAmountRequired |-> "0", extra |-> [feePayer |-> "FeePayer"]]
            ELSE SelectRequirement(x402)
    IN  ValidateRequirement(requirement) @@ [requirement |-> requirement]

\* lines 235-264: from the parsed 402 body to the first ledger call; the
\* outcome also carries the requirement once line 240 has assigned it
Negotiate(x402) ==
    IF ~Has(x402, "accepts") \/ Len(x402.accepts) = 0
    THEN Throw(NoPaymentMethodsMessage)
    ELSE LET requirement == SelectRequirement(x402)
         IN  ValidateRequirement(requirement) @@ [requirement |-> requirement]


(***************************************************************************)
(* Transaction building, signing and the proof: client.ts 266-348          *)
(***************************************************************************)
Digits == {"0", "1", "2", "3", "4", "5", "6", "7", "8", "9"}
DigitValue(c) ==
    CASE c = "0" -> 0 [] c = "1" -> 1 [] c = "2" -> 2 [] c = "3" -> 3 [] c = "4" -> 4
      [] c = "5" -> 5 [] c = "6" -> 6 [] c = "7" -> 7 [] c = "8" -> 8 [] c = "9" -> 9

RECURSIVE ParseDigits(_)
ParseDigits(s) ==
    IF Len(s) = 0 THEN 0
    ELSE 10 * ParseDigits(SubSeq(s, 1, Len(s) - 1)) + DigitValue(SubSeq(s, Len(s), Len(s)))

\* BigInt(string): a decimal integer literal, anything else is a SyntaxError
BigInt(s) ==
    IF \A i \in 1..Len(s) : SubSeq(s, i, i) \in Digits
    THEN Ok(ParseDigits(s))
    ELSE Throw("Cannot convert " \o s \o " to a BigInt")

\* getAssociatedTokenAddress(mint, owner, false): the derived holding account;
\* TokenOwnerOffCurveError carries no message
getAssociatedTokenAddress(mint, owner) ==
    IF owner \in OffCurve THEN Throw("") ELSE Ok("ata:" \o owner \o ":" \o mint)

\* lines 266-293: what runs between the answer of getMint and the call of
\* getAccountInfo; the value is the account whose existence is asked for
ResolveAccounts(requirement, voterPubkey) ==
    IF ~(Has(requirement, "extra") /\ Truthy(requirement.extra, "feePayer"))
    THEN Throw("Payment requirements do not include a fee payer")
    ELSE IF requirement.extra.feePayer \notin ValidAddresses
              \/ requirement.payTo \notin ValidAddresses
    THEN Throw("Invalid public key input")
    ELSE LET userAta == getAssociatedTokenAddress(requirement.asset, voterPubkey)
             destAta == getAssociatedTokenAddress(requirement.asset, requirement.payTo)
         IN  IF userAta.threw THEN userAta
             ELSE IF destAta.threw THEN destAta
             ELSE Ok([userAta |-> userAta.value, destAta |-> destAta.value])

ComputeBudgetInstructions ==
    << [op |-> "SetComputeUnitLimit", units |-> 100000],
       [op |-> "SetComputeUnitPrice", microLamports |-> 1] >>

createAssociatedTokenAccountInstruction(payer, ata, owner, mint) ==
    [op |-> "CreateAssociatedTokenAccount", payer |-> payer, associatedToken |-> ata,
     owner |-> owner, mint |-> mint]

createTransferCheckedInstruction(source, mint, destination, owner, amount, decimals) ==
    [op |-> "TransferChecked", source |-> source, mint |-> mint,
     destination |-> destination, owner |-> owner, amount |-> amount,
     decimals |-> decimals]

\* variant: the amount goes through whole tokens of 1,000,000 units
TransferAmountViaTokens(requirement) ==
    LET units == BigInt(requirement.maxAmountRequired)
    IN  IF units.threw THEN units ELSE Ok((units.value \div 1000000) * 1000000)

\* the amount handed to the transfer instruction
TransferAmount(requirement) == BigInt(requirement.maxAmountRequired)

\* variant: the holding account is created whatever the ledger reported
BuildInstructionsAlwaysCreate(requirement, voterPubkey, decimals, destAtaExists) ==
    LET accounts == ResolveAccounts(requirement, voterPubkey).value
        amount == TransferAmount(requirement)
    IN  IF amount.threw THEN amount
        ELSE Ok(ComputeBudgetInstructions \o
                << createAssociatedTokenAccountInstruction(
                       requirement.extra.feePayer, accounts.destAta,
                       requirement.payTo, requirement.asset),
                   createTransferCheckedInstruction(
                       accounts.userAta, requirement.asset, accounts.destAta,
                       voterPubkey, amount.value, decimals) >>)

\* lines 288-321: the instruction list, given whether the recipient's holding
\* account exists
BuildInstructions(requirement, voterPubkey, decimals, destAtaExists) ==
    LET accounts == ResolveAccounts(requirement, voterPubkey).value
        feePayer == requirement.extra.feePayer
        create == IF destAtaExists THEN <<>>
                  ELSE << createAssociatedTokenAccountInstruction(
                              feePayer, accounts.destAta, requirement.payTo,
                              requirement.asset) >>
        amount == TransferAmount(requirement)
    IN  IF amount.threw THEN amount
        ELSE Ok(ComputeBudgetInstructions \o create \o
                << createTransferCheckedInstruction(
                       accounts.userAta, requirement.asset, accounts.destAta,
                       voterPubkey, amount.value, decimals) >>)

\* the accounts that must sign: the fee payer and the signer of each instruction
RequiredSigners(payerKey, instructions) ==
    {payerKey}
    \cup {instructions[i].owner : i \in {j \in DOMAIN instructions :
                                          instructions[j].op = "TransferChecked"}}
    \cup {instructions[i].payer : i \in {j \in DOMAIN instructions :
                                          instructions[j].op = "CreateAssociatedTokenAccount"}}

\* new TransactionMessage({...}).compileToV0Message()
CompileMessage(payerKey, recentBlockhash, instructions) ==
    [payerKey |-> payerKey, recentBlockhash |-> recentBlockhash,
     instructions |-> instructions,
     signers |-> RequiredSigners(payerKey, instructions)]

\* new VersionedTransaction(message): one empty signature slot per signer
VersionedTransaction(message) ==
    [message |-> message, signatures |-> [k \in message.signers |-> <<>>]]

Ed25519Sign(keypair, message) == [signedBy |-> keypair.publicKey, over |-> message]

\* variant: signing stamps the signer as the fee payer of the message
SignTransactionAsPayer(transaction, keypair) ==
    IF keypair.publicKey \notin transaction.message.signers
    THEN Throw("Cannot sign with non signer key " \o keypair.publicKey)
    ELSE LET message == [transaction.message EXCEPT !.payerKey = keypair.publicKey]
         IN  Ok([message |-> message,
                 signatures |-> [transaction.signatures EXCEPT
                                    ![keypair.publicKey] =
                                        Ed25519Sign(keypair, message)]])

\* transaction.sign([keypair])
SignTransaction(transaction, keypair) ==
    IF keypair.publicKey \notin transaction.message.signers
    THEN Throw("Cannot sign with non signer key " \o keypair.publicKey)
    ELSE Ok([transaction EXCEPT
               !.signatures[keypair.publicKey] =
                   Ed25519Sign(keypair, transaction.message)])

\* Buffer.from(x).toString('base64') and JSON.stringify of the payload
Base64(x) == [base64 |-> x]
Serialize(transaction) == [wire |-> transaction]
PaymentPayload(x402, requirement, transaction) ==
    [x402Version |-> x402.x402Version, scheme |-> requirement.scheme,
     network |-> requirement.network,
     payload |-> [transaction |-> Base64(Serialize(transaction))]]
PaymentHeader(payload) == Base64([json |-> payload])


(***************************************************************************)
(* Facilitator variant of executeVote: client.ts 447-551                   *)
(***************************************************************************)
FacilitatorUrl == "https://x402.org/facilitator"

\* X402PaymentRequirements (types.ts 106-123) as carried by the
\* X-Payment-Required header
HeaderRequirements ==
    {[network |-> "solana-devnet", payTo |-> "PollWallet", amount |-> a,
      splToken |-> "MintUSDC"] : a \in AmountTexts}

\* headers.get('x-payment-required'): the header is absent, is no JSON, or
\* holds the requirements
PaymentRequiredHeaders ==
    {[present |-> FALSE], [present |-> TRUE, json |-> FALSE]}
    \cup {[present |-> TRUE, json |-> TRUE, value |-> r] : r \in HeaderRequirements}

ParsePaymentRequiredHeader(header) ==
    IF ~header.present
    THEN Throw("Missing X-Payment-Required header in 402 response")
    ELSE IF ~header.json THEN Throw("Unexpected token o in JSON at position 1")
    ELSE Ok(header.value)

\* the body of the request to <facilitator>/settle
SettleRequest(url, paymentRequirements, walletPublicKey) ==
    [resourceUrl |-> url, paymentRequirements |-> paymentRequirements,
     walletPublicKey |-> walletPublicKey]

\* legacy transactions a facilitator may hand out for a requirement: who must
\* sign and who has signed already
FacilitatorTransaction(paymentRequirements, feePayer, signers, signedBy) ==
    LET message ==
            [payerKey |-> feePayer, recentBlockhash |-> "blockhash-1",
             instructions |->
                << createTransferCheckedInstruction(
                       "ata:Alice:MintUSDC", paymentRequirements.splToken,
                       "ata:PollWallet:MintUSDC", "Alice",
                       ParseDigits(paymentRequirements.amount), 6) >>,
             signers |-> signers]
    IN  [message |-> message,
         signatures |-> [k \in signers |->
                            IF k \in signedBy
                            THEN [signedBy |-> k, over |-> message] ELSE <<>>]]

\* parsed JSON bodies of the facilitator's answer
FacilitatorBodies(paymentRequirements) ==
    {[transaction |-> Base64(Serialize(t))] :
        t \in {FacilitatorTransaction(paymentRequirements, "FeePayer",
                                      {"FeePayer", "Alice"}, {"FeePayer"}),
               FacilitatorTransaction(paymentRequirements, "FeePayer",
                                      {"FeePayer", "Alice"}, {}),
               FacilitatorTransaction(paymentRequirements, "Alice", {"Alice"}, {}),
               FacilitatorTransaction(paymentRequirements, "FeePayer",
                                      {"FeePayer"}, {"FeePayer"})}}
    \cup {[transaction |-> Base64([bytes |-> "garbage"])], [message |-> "no route"],
          [error |-> "insufficient funds"], [status |-> "error"]}

\* Transaction.from(Buffer.from(txBase64, 'base64'))
TransactionFrom(body) ==
    IF ~Has(body, "transaction")
    THEN Throw("The first argument must be of type string or an instance of Buffer")
    ELSE IF ~Has(body.transaction.base64, "wire")
    THEN Throw("Reached end of buffer unexpectedly")
    ELSE Ok(body.transaction.base64.wire)

\* transaction.partialSign(keypair)
PartialSign(tx, keypair) ==
    IF keypair.publicKey \notin DOMAIN tx.signatures
    THEN Throw("unknown signer: " \o keypair.publicKey)
    ELSE Ok([tx EXCEPT !.signatures[keypair.publicKey] =
                           Ed25519Sign(keypair, tx.message)])

\* transaction.serialize(): requireAllSignatures and verifySignatures default
\* to true
SerializeLegacy(tx) ==
    IF \E k \in DOMAIN tx.signatures : tx.signatures[k] = <<>>
    THEN Throw("Signature verification failed")
    ELSE Ok(Serialize(tx))

\* variant: a transaction in the facilitator's answer is signed whatever the
\* status of the answer
FacilitatorOutcomeIgnoresStatus(status, parsed, keypair) ==
    IF parsed.threw THEN parsed
    ELSE LET tx == TransactionFrom(parsed.value)
         IN  IF tx.threw THEN tx
             ELSE PartialSign(tx.value, keypair)

\* lines 500-514: from the facilitator's answer to the signed, serialized
\* transaction
FacilitatorOutcome(status, parsed, keypair) ==
    IF parsed.threw THEN parsed
    ELSE IF ~ResponseOk(status)
    THEN Throw("Facilitator error: " \o
               (IF Truthy(parsed.value, "message") THEN parsed.value.message
                ELSE IF Truthy(parsed.value, "error") THEN parsed.value.error
                ELSE "Unknown error"))
    ELSE LET tx == TransactionFrom(parsed.value)
         IN  IF tx.threw THEN tx
             ELSE PartialSign(tx.value, keypair)

FacilitatorStatuses == {200, 500}

(***************************************************************************)
(* Answers of the ledger                                                   *)
(***************************************************************************)
MintDecimals == {6}
\* getMint rejects with a TokenAccountNotFoundError (no message) or an RPC error
MintErrors == {"", "failed to get info about account MintUSDC"}
AccountInfoErrors == {"failed to get info about account"}
Blockhashes == {"blockhash-1"}
BlockhashErrors == {"failed to get recent blockhash"}

(***************************************************************************)
(* State of one attempt                                                    *)
(***************************************************************************)
VARIABLES
    params,        \* the VoteParams of the call
    pc,            \* the await the attempt is suspended at, or "start"/"done"
    x402Response,  \* parsed body of the 402 answer
    requirement,   \* the selected entry of accepts
    rpcUrl,        \* endpoint of the Connection
    mint,          \* answer of getMint
    instructions,  \* the instruction list
    transaction,   \* the compiled, then signed transaction
    log,           \* history: requests issued and build/sign steps, in order
    result,        \* the VoteResult the call resolved to
    failedAt,      \* history: the step that threw, "none" while nothing threw
    confirmPc,     \* where executeVoteWithConfirmation stands; "idle" when
                   \* executeVote was called on its own
    confirmResult, \* the VoteResult executeVoteWithConfirmation resolved to
    args,          \* arguments of the futarchy_vote tool call, if there is one
    processEnv,    \* process.env of the tool call
    toolPc,        \* where handleVote stands; "idle" when no tool call is made
    toolResult,    \* what handleVote resolved to or rejected with
    toolName,      \* the name executeTool was called with, Unset when a handler
                   \* is called directly
    handler,       \* history: what the registry lookup of executeTool gave
    previous,      \* history: what the caller's earlier attempt selected and sent,
                   \* Unset while no attempt was retried
    suspended      \* the frame of a second call that waits at an await while
                   \* this one runs, Unset when there is one call only

locals == <<x402Response, requirement, rpcUrl, mint, instructions, transaction>>
vars == <<params, pc, x402Response, requirement, rpcUrl, mint, instructions,
          transaction, log, result, failedAt, confirmPc, confirmResult,
          args, processEnv, toolPc, toolResult, toolName, handler, previous,
          suspended>>
\* the state of a tool call around executeVote
tool == <<args, processEnv, toolPc, toolResult, toolName, handler>>
\* what a step of executeVote leaves alone on the caller's side
\* the other attempts of the caller
attempts == <<previous, suspended>>
caller == <<params, confirmPc, confirmResult, tool, attempts>>

voterKeypair == decodeWalletPrivateKey(params.walletPrivateKey).value
voteUrl == VoteUrl(params)

FetchEvent(url, headers) ==
    [ev |-> "fetch", url |-> url, method |-> "POST", headers |-> headers]
RpcEvent(method, endpoint, about) ==
    [ev |-> "rpc", method |-> method, endpoint |-> endpoint, about |-> about]
StepEvent(name) == [ev |-> name]
ResponseEvent(of, status, body) ==
    [ev |-> "response", of |-> of, status |-> status, body |-> body]
FetchFailedEvent(of, reason) == [ev |-> "fetch_failed", of |-> of, reason |-> reason]
\* what getAccountInfo resolved to: an account (found) or null
AccountInfoEvent(account, found) ==
    [ev |-> "account_info", account |-> account, found |-> found]

(***************************************************************************)
(* Reading the history                                                     *)
(***************************************************************************)
IsProofRequest(e) == e.ev = "fetch" /\ Has(e.headers, "X-Payment")
IsLedgerCall(e) == e.ev = "rpc"
IsResponse(e, of, status) == e.ev = "response" /\ e.of = of /\ e.status = status

ProofRequests == {i \in DOMAIN log : IsProofRequest(log[i])}
LedgerCalls == {i \in DOMAIN log : IsLedgerCall(log[i])}
Events(name) == {i \in DOMAIN log : log[i].ev = name}
Responses(of, status) == {i \in DOMAIN log : IsResponse(log[i], of, status)}

\* the call resolves: through the catch clause when `stage` names a throw
Finish(value, stage) ==
    /\ pc' = "done"
    /\ result' = value
    /\ failedAt' = stage

Fail(message, stage) == Finish(CatchResult(message), stage)

\* executeVote is called by a program, not through the tool
NoToolCall ==
    /\ args = Unset
    /\ processEnv = Unset
    /\ toolPc = "idle"
    /\ toolResult = Unset
    /\ toolName = Unset
    /\ handler = Unset

\* one call of executeVote, with no earlier attempt and no call beside it
OneAttempt ==
    /\ previous = Unset
    /\ suspended = Unset

Init ==
    /\ params \in ParamSets
    /\ pc = "start"
    /\ x402Response = Unset
    /\ requirement = Unset
    /\ rpcUrl = ""
    /\ mint = Unset
    /\ instructions = <<>>
    /\ transaction = Unset
    /\ log = <<>>
    /\ result = Unset
    /\ failedAt = "none"
    /\ confirmPc = "idle"
    /\ confirmResult = Unset
    /\ NoToolCall
    /\ OneAttempt

\* variant: the request without proof is issued before the key is decoded
BeginFetchFirst ==
    /\ pc = "start"
    /\ log' = Append(log, FetchEvent(voteUrl, <<>>))
    /\ LET keypair == decodeWalletPrivateKey(params.walletPrivateKey)
       IN  IF keypair.threw
           THEN Fail(keypair.message, "decode")
           ELSE /\ pc' = "await_initial"
                /\ UNCHANGED <<result, failedAt>>
    /\ UNCHANGED <<caller, locals>>

\* lines 207-214: decode the key, issue the request without proof
StartExecuteVote(p) ==
    LET keypair == decodeWalletPrivateKey(p.walletPrivateKey)
    IN  IF keypair.threw
        THEN /\ Fail(keypair.message, "decode")
             /\ UNCHANGED log
        ELSE /\ pc' = "await_initial"
             /\ log' = Append(log, FetchEvent(VoteUrl(p), <<>>))
             /\ UNCHANGED <<result, failedAt>>

\* executeVote called with params
Begin ==
    /\ pc = "start"
    /\ StartExecuteVote(params)
    /\ UNCHANGED <<caller, locals>>

\* variant: a proof-less request that failed in transport is issued once more
InitialFetchFailsRetry ==
    /\ pc = "await_initial"
    /\ \E reason \in TransportReasons :
          IF Cardinality({i \in DOMAIN log : log[i].ev = "fetch"}) < 2
          THEN /\ log' = log \o << FetchFailedEvent("initial", reason),
                                    FetchEvent(voteUrl, <<>>) >>
               /\ UNCHANGED <<pc, result, failedAt>>
          ELSE /\ Fail(FetchErrorMessage(voteUrl, reason), "initial_fetch")
               /\ log' = Append(log, FetchFailedEvent("initial", reason))
    /\ UNCHANGED <<caller, locals>>

\* the request without proof fails in transport
InitialFetchFails ==
    /\ pc = "await_initial"
    /\ \E reason \in TransportReasons :
          /\ Fail(FetchErrorMessage(voteUrl, reason), "initial_fetch")
          /\ log' = Append(log, FetchFailedEvent("initial", reason))
    /\ UNCHANGED <<caller, locals>>

\* lines 217-230: the message thrown for an answer other than 402
InitialStatusError(status, text, url, pollId) ==
    IF status = 400
    THEN LET error == ResponseJson(url, text)
         IN  IF error.threw THEN error
             ELSE Throw("Invalid vote request: " \o JsonStringify(error.value))
    ELSE IF status = 403
    THEN Throw("Duplicate vote: You have already voted on this poll")
    ELSE IF status = 404
    THEN Throw("Poll not found: " \o pollId)
    ELSE Throw("Expected 402 Payment Required, got " \o ToString(status))

InitialRejected ==
    /\ pc = "await_initial"
    /\ \E status \in InitialStatuses \ {402}, text \in BodyTexts :
          /\ Fail(InitialStatusError(status, text, voteUrl, params.pollId).message,
                  "initial_status")
          /\ log' = Append(log, ResponseEvent("initial", status, text))
    /\ UNCHANGED <<caller, locals>>

\* line 233: the body of the 402 answer is no JSON
ChallengeUnparsable ==
    /\ pc = "await_initial"
    /\ params.variant = "direct"
    /\ Fail(ResponseJson(voteUrl, NotJsonText).message, "challenge_parse")
    /\ log' = Append(log, ResponseEvent("initial", 402, NotJsonText))
    /\ UNCHANGED <<caller, locals>>

\* lines 233-264: parse the challenge, select, validate, call getMint
ChallengeReceived ==
    /\ pc = "await_initial"
    /\ params.variant = "direct"
    /\ \E x402 \in Challenges :
          LET negotiated == Negotiate(x402)
              answered == Append(log, ResponseEvent("initial", 402, "x402"))
          IN  /\ x402Response' = x402
              /\ requirement' = IF Has(negotiated, "requirement")
                                THEN negotiated.requirement ELSE requirement
              /\ IF negotiated.threw
                 THEN /\ Fail(negotiated.message, "negotiate")
                      /\ log' = answered
                      /\ UNCHANGED rpcUrl
                 ELSE /\ rpcUrl' = negotiated.value
                      /\ log' = Append(answered,
                                       RpcEvent("getMint", negotiated.value,
                                                negotiated.requirement.asset))
                      /\ pc' = "await_mint"
                      /\ UNCHANGED <<result, failedAt>>
    /\ UNCHANGED <<caller, mint, instructions, transaction>>

MintFails ==
    /\ pc = "await_mint"
    /\ \E message \in MintErrors : Fail(message, "getMint")
    /\ UNCHANGED <<caller, locals, log>>

\* lines 264-296: the mint is known; fee payer, holding accounts, getAccountInfo
MintAnswered ==
    /\ pc = "await_mint"
    /\ \E decimals \in MintDecimals :
          LET accounts == ResolveAccounts(requirement, voterKeypair.publicKey)
          IN  /\ mint' = [decimals |-> decimals]
              /\ IF accounts.threw
                 THEN /\ Fail(accounts.message, "resolve_accounts")
                      /\ UNCHANGED log
                 ELSE /\ log' = Append(log, RpcEvent("getAccountInfo", rpcUrl,
                                                     accounts.value.destAta))
                      /\ pc' = "await_account_info"
                      /\ UNCHANGED <<result, failedAt>>
    /\ UNCHANGED <<caller, x402Response, requirement, rpcUrl, instructions, transaction>>

AccountInfoFails ==
    /\ pc = "await_account_info"
    /\ \E message \in AccountInfoErrors : Fail(message, "getAccountInfo")
    /\ UNCHANGED <<caller, locals, log>>

\* lines 296-324: the instruction list, then getLatestBlockhash
AccountInfoAnswered ==
    /\ pc = "await_account_info"
    /\ \E destAtaExists \in BOOLEAN :
          LET built == BuildInstructions(requirement, voterKeypair.publicKey,
                                         mint.decimals, destAtaExists)
          IN  IF built.threw
              THEN /\ Fail(built.message, "build_instructions")
                   /\ log' = Append(log, AccountInfoEvent(log[Len(log)].about,
                                                          destAtaExists))
                   /\ UNCHANGED instructions
              ELSE /\ instructions' = built.value
                   /\ log' = log \o << AccountInfoEvent(log[Len(log)].about,
                                                        destAtaExists),
                                        RpcEvent("getLatestBlockhash", rpcUrl, "") >>
                   /\ pc' = "await_blockhash"
                   /\ UNCHANGED <<result, failedAt>>
    /\ UNCHANGED <<caller, x402Response, requirement, rpcUrl, mint, transaction>>

BlockhashFails ==
    /\ pc = "await_blockhash"
    /\ \E message \in BlockhashErrors : Fail(message, "getLatestBlockhash")
    /\ UNCHANGED <<caller, locals, log>>

\* variant: the proof is built and sent before the transaction is signed
AfterSignSubmitFirst(signed) ==
    LET unsigned == VersionedTransaction(signed.message)
    IN  /\ transaction' = signed
        /\ log' = log \o
                  << StepEvent("compile"),
                     FetchEvent(voteUrl,
                         ("Content-Type" :> "application/json") @@
                         ("X-Payment" :> PaymentHeader(
                              PaymentPayload(x402Response, requirement, unsigned)))),
                     StepEvent("sign") >>
        /\ pc' = "await_payment"
        /\ UNCHANGED <<result, failedAt>>

\* variant: the proof goes to the vote URL with the default slippage
AfterSignDefaultSlippage(signed) ==
    /\ transaction' = signed
    /\ log' = log \o
              << StepEvent("compile"), StepEvent("sign"),
                 FetchEvent(VoteUrl([pollId |-> params.pollId, side |-> params.side]),
                     ("Content-Type" :> "application/json") @@
                     ("X-Payment" :> PaymentHeader(
                          PaymentPayload(x402Response, requirement, signed))))
                 @@ [body |-> EmptyObjectText] >>
    /\ pc' = "await_payment"
    /\ UNCHANGED <<result, failedAt>>

\* what follows a successful signature: lines 337-358, the proof is sent
AfterSign(signed) ==
    /\ transaction' = signed
    /\ log' = log \o
              << StepEvent("compile"), StepEvent("sign"),
                 FetchEvent(voteUrl,
                     ("Content-Type" :> "application/json") @@
                     ("X-Payment" :> PaymentHeader(
                          PaymentPayload(x402Response, requirement, signed))))
                 @@ [body |-> EmptyObjectText] >>
    /\ pc' = "await_payment"
    /\ UNCHANGED <<result, failedAt>>

\* lines 324-358: compile, sign, build the proof, send it
BlockhashAnswered ==
    /\ pc = "await_blockhash"
    /\ \E blockhash \in Blockhashes :
          LET message == CompileMessage(requirement.extra.feePayer, blockhash,
                                        instructions)
              signed == SignTransaction(VersionedTransaction(message), voterKeypair)
          IN  IF signed.threw
              THEN /\ Fail(signed.message, "sign")
                   /\ transaction' = VersionedTransaction(message)
                   /\ log' = Append(log, StepEvent("compile"))
              ELSE AfterSign(signed.value)
    /\ UNCHANGED <<caller, x402Response, requirement, rpcUrl, mint, instructions>>

\* variant: a proof-carrying request that failed in transport is sent once more
AfterPaymentFetchFailureRetry(reason) ==
    IF Cardinality(ProofRequests) < 2
    THEN /\ log' = log \o << FetchFailedEvent("payment", reason),
                              log[CHOOSE i \in ProofRequests : TRUE] >>
         /\ UNCHANGED <<pc, result, failedAt>>
    ELSE /\ Fail(FetchErrorMessage(voteUrl, reason), "payment_fetch")
         /\ log' = Append(log, FetchFailedEvent("payment", reason))

\* where the attempt goes when the proof-carrying request fails in transport
AfterPaymentFetchFailure(reason) ==
    /\ Fail(FetchErrorMessage(voteUrl, reason), "payment_fetch")
    /\ log' = Append(log, FetchFailedEvent("payment", reason))

PaymentFetchFails ==
    /\ pc = "await_payment"
    /\ \E reason \in TransportReasons : AfterPaymentFetchFailure(reason)
    /\ UNCHANGED <<caller, locals>>

\* variant: a body that holds a vote receipt is taken as success before the
\* status is looked at
PaymentOutcomeTrustsBody(status, text, url) ==
    LET body == ResponseJson(url, text)
    IN  IF ~body.threw /\ Has(body.value, "vote_id")
        THEN Ok(SuccessResult(body.value))
        ELSE IF ~ResponseOk(status)
        THEN IF status = 409
             THEN Throw("Slippage exceeded: Entry fee changed too much. Try again with higher slippage.")
             ELSE IF body.threw THEN body
                  ELSE Throw("Vote failed: " \o JsonStringify(body.value))
        ELSE body

\* lines 360-382: classify the answer to the proof-carrying request
PaymentOutcome(status, text, url) ==
    IF ~ResponseOk(status)
    THEN IF status = 409
         THEN Throw("Slippage exceeded: Entry fee changed too much. Try again with higher slippage.")
         ELSE LET error == ResponseJson(url, text)
              IN  IF error.threw THEN error
                  ELSE Throw("Vote failed: " \o JsonStringify(error.value))
    ELSE LET body == ResponseJson(url, text)
         IN  IF body.threw THEN body ELSE Ok(SuccessResult(body.value))

PaymentAnswered ==
    /\ pc = "await_payment"
    /\ \E status \in PaymentStatuses, text \in BodyTexts :
          LET outcome == PaymentOutcome(status, text, voteUrl)
          IN  /\ log' = Append(log, ResponseEvent("payment", status, text))
              /\ IF outcome.threw
                 THEN Fail(outcome.message,
                           IF ResponseOk(status) THEN "payment_parse"
                           ELSE "payment_status")
                 ELSE Finish(outcome.value, "none")
    /\ UNCHANGED <<caller, locals>>

\* lines 481-498: requirements from the header, ask the facilitator
FacilitatorChallenge ==
    /\ pc = "await_initial"
    /\ params.variant = "facilitator"
    /\ \E header \in PaymentRequiredHeaders :
          LET parsed == ParsePaymentRequiredHeader(header)
              answered == Append(log, ResponseEvent("initial", 402, "x402")
                                      @@ [responseHeaders |-> header])
          IN  IF parsed.threw
              THEN /\ Fail(parsed.message, "negotiate")
                   /\ log' = answered
                   /\ UNCHANGED requirement
              ELSE /\ requirement' = parsed.value
                   /\ log' = Append(answered,
                          FetchEvent(FacilitatorUrl \o "/settle", <<>>) @@
                          [body |-> SettleRequest(voteUrl, parsed.value,
                                                  voterKeypair.publicKey)])
                   /\ pc' = "await_facilitator"
                   /\ UNCHANGED <<result, failedAt>>
    /\ UNCHANGED <<caller, x402Response, rpcUrl, mint, instructions, transaction>>

FacilitatorFetchFails ==
    /\ pc = "await_facilitator"
    /\ \E reason \in TransportReasons :
          /\ Fail(FetchErrorMessage(FacilitatorUrl \o "/settle", reason),
                  "facilitator_fetch")
          /\ log' = Append(log, FetchFailedEvent("facilitator", reason))
    /\ UNCHANGED <<caller, locals>>

\* what follows partialSign in the facilitator variant: lines 513-520
AfterPartialSign(signed, answered) ==
    LET wire == SerializeLegacy(signed)
    IN  /\ transaction' = signed
        /\ IF wire.threw
           THEN /\ Fail(wire.message, "serialize")
                /\ log' = Append(answered, StepEvent("sign"))
           ELSE /\ log' = answered \o << StepEvent("sign"),
                                    FetchEvent(voteUrl,
                                        "X-Payment" :> Base64(wire.value)) >>
                /\ pc' = "await_payment"
                /\ UNCHANGED <<result, failedAt>>

\* lines 500-520: the facilitator answered
FacilitatorAnswered ==
    /\ pc = "await_facilitator"
    /\ \E status \in FacilitatorStatuses,
          parsed \in {Throw(InvalidJsonMessage(FacilitatorUrl \o "/settle"))}
                     \cup {Ok(b) : b \in FacilitatorBodies(requirement)} :
          LET signed == FacilitatorOutcome(status, parsed, voterKeypair)
              answered == Append(log, ResponseEvent("facilitator", status,
                                     IF parsed.threw THEN NotJsonText ELSE "json"))
          IN  IF signed.threw
              THEN /\ Fail(signed.message, "facilitator")
                   /\ log' = answered
                   /\ UNCHANGED transaction
              ELSE AfterPartialSign(signed.value, answered)
    /\ UNCHANGED <<caller, x402Response, requirement, rpcUrl, mint, instructions>>

Next ==
    \/ Begin
    \/ FacilitatorChallenge
    \/ FacilitatorFetchFails
    \/ FacilitatorAnswered
    \/ InitialFetchFails
    \/ InitialRejected
    \/ ChallengeUnparsable
    \/ ChallengeReceived
    \/ MintFails
    \/ MintAnswered
    \/ AccountInfoFails
    \/ AccountInfoAnswered
    \/ BlockhashFails
    \/ BlockhashAnswered
    \/ PaymentFetchFails
    \/ PaymentAnswered

Spec == Init /\ [][Next]_vars

\* The steps of the attempt that need no answer are taken: the runtime runs the
\* call.  A fetch or a ledger call is awaited with no timeout and no abort
\* signal (client.ts 214, 264, 296, 324, 351), so nothing makes an answer come.
SpecLive == Init /\ [][Next]_vars /\ WF_vars(Begin)


(***************************************************************************)
(* executeVoteWithConfirmation of the direct variant: client.ts 395-419    *)
(***************************************************************************)
\* VoteParams.network and the FUTARCHY_NETWORK variable ("" when not set)
ParamNetworks == {"devnet"}
EnvNetworks == {"", "devnet", "testnet"}

ConfirmationParamSets ==
    LET direct == {p \in ParamSets : p.variant = "direct"}
    IN  direct \cup {p @@ [network |-> n] : p \in direct, n \in ParamNetworks}

\* lines 405-407
ConfirmationNetwork(p, env) ==
    IF Truthy(p, "network") THEN p.network
    ELSE IF env # "" THEN env
    ELSE "mainnet"

\* what confirmTransaction resolves to, and the messages it rejects with
ConfirmationValues == {[err |-> "null"], [err |-> "InstructionError"]}
ConfirmationErrors == {"Transaction was not confirmed in 30.00 seconds"}

ConfirmationFailedEvent(reason) == [ev |-> "confirmation_failed", reason |-> reason]

\* variant: a failed confirmation is returned as a failed vote
ConfirmationCatchAsFailure(voteResult, message) ==
    [success |-> FALSE,
     error |-> "Vote submitted but confirmation failed: " \o message]

\* the catch clause of lines 413-418: { ...result, error }
ConfirmationCatch(voteResult, message) ==
    [error |-> "Vote submitted but confirmation failed: " \o message] @@ voteResult

ConfirmationReturns(value) ==
    /\ confirmPc' = "done"
    /\ confirmResult' = value

InitConfirmation ==
    /\ params \in ConfirmationParamSets
    /\ pc = "start"
    /\ x402Response = Unset
    /\ requirement = Unset
    /\ rpcUrl = ""
    /\ mint = Unset
    /\ instructions = <<>>
    /\ transaction = Unset
    /\ log = <<>>
    /\ result = Unset
    /\ failedAt = "none"
    /\ confirmPc = "await_executeVote"
    /\ confirmResult = Unset
    /\ NoToolCall
    /\ OneAttempt

\* lines 396-410: executeVote resolved; return its result, or ask the ledger
\* to confirm the signature
VoteReturned ==
    /\ confirmPc = "await_executeVote"
    /\ pc = "done"
    /\ IF ~result.success \/ ~Truthy(result, "transaction_signature")
       THEN /\ ConfirmationReturns(result)
            /\ UNCHANGED log
       ELSE \E env \in EnvNetworks :
               LET rpc == getSolanaRpcUrl(ConfirmationNetwork(params, env))
               IN  IF rpc.threw
                   THEN /\ ConfirmationReturns(ConfirmationCatch(result, rpc.message))
                        /\ UNCHANGED log
                   ELSE /\ log' = Append(log, RpcEvent("confirmTransaction", rpc.value,
                                                       result.transaction_signature))
                        /\ confirmPc' = "await_confirmation"
                        /\ UNCHANGED confirmResult
    /\ UNCHANGED <<params, tool, attempts, pc, locals, result, failedAt>>

\* lines 410-412: confirmTransaction resolved
ConfirmationAnswered ==
    /\ confirmPc = "await_confirmation"
    /\ \E value \in ConfirmationValues :
          /\ ConfirmationReturns(result)
          /\ log' = Append(log, [ev |-> "confirmation", value |-> value])
    /\ UNCHANGED <<params, tool, attempts, pc, locals, result, failedAt>>

\* lines 413-418: confirmTransaction rejected
ConfirmationFails ==
    /\ confirmPc = "await_confirmation"
    /\ \E message \in ConfirmationErrors :
          /\ ConfirmationReturns(ConfirmationCatch(result, message))
          /\ log' = Append(log, ConfirmationFailedEvent(message))
    /\ UNCHANGED <<params, tool, attempts, pc, locals, result, failedAt>>

NextConfirmation ==
    \/ Begin
    \/ InitialFetchFails
    \/ InitialRejected
    \/ ChallengeUnparsable
    \/ ChallengeReceived
    \/ MintFails
    \/ MintAnswered
    \/ AccountInfoFails
    \/ AccountInfoAnswered
    \/ BlockhashFails
    \/ BlockhashAnswered
    \/ PaymentFetchFails
    \/ PaymentAnswered
    \/ VoteReturned
    \/ ConfirmationAnswered
    \/ ConfirmationFails

SpecConfirmation == InitConfirmation /\ [][NextConfirmation]_vars


(***************************************************************************)
(* The futarchy_vote tool: handleVote, tools/handlers.ts 160-204            *)
(***************************************************************************)
\* arithmetic of JavaScript numbers on the ratios of the model
RECURSIVE Gcd(_, _)
Gcd(a, b) == IF b = 0 THEN a ELSE Gcd(b, a % b)
Reduced(n, d) == IF d = 0 THEN NaN ELSE Fraction(n \div Gcd(n, d), d \div Gcd(n, d))
DividedBy(x, k) == Reduced(x.n, x.d * k)
Times(x, k) == Reduced(x.n * k, x.d)
\* 0 and NaN are falsy
NumberTruthy(x) == x.n # 0 /\ x.d # 0

\* parseFloat on the amount strings of the model
parseFloat(s) ==
    IF Len(s) > 0 /\ \A i \in 1..Len(s) : SubSeq(s, i, i) \in Digits
    THEN Fraction(ParseDigits(s), 1)
    ELSE NaN

\* arguments a tool call may carry; each one may be missing
ArgSets ==
    LET pick(k, values) == {<<>>} \cup {k :> v : v \in values}
    IN  {a @@ b @@ c @@ d :
            a \in pick("poll_id", {"", "poll-1"}),
            b \in pick("side", {"yes", "no", "maybe"}),
            c \in pick("wallet_private_key", {"5Jalice", "invalid-key"}),
            d \in pick("slippage", {0, 100})}

\* process.env: WALLET_PRIVATE_KEY is set or not
EnvSets == {<<>>, [WALLET_PRIVATE_KEY |-> "5Jalice"]}

\* lines 163-174
ValidateVoteArgs(a) ==
    IF ~Truthy(a, "poll_id") THEN Throw("poll_id is required")
    ELSE IF ~Truthy(a, "side") THEN Throw("side is required")
    ELSE IF a.side # "yes" /\ a.side # "no"
    THEN Throw("side must be \"yes\" or \"no\"")
    ELSE IF ~Truthy(a, "wallet_private_key")
    THEN Throw("wallet_private_key is required")
    ELSE Ok(a)

\* variant: a slippage of 0 counts as not given
VoteParamsOfFalsyDefault(a, variant) ==
    [variant |-> variant, pollId |-> a.poll_id, side |-> a.side,
     walletPrivateKey |-> a.wallet_private_key,
     slippage |-> IF Has(a, "slippage") /\ a.slippage # 0 THEN a.slippage ELSE 50]

\* lines 176-182: the VoteParams handed to executeVote; slippage ?? 0.05
VoteParamsOf(a, variant) ==
    [variant |-> variant, pollId |-> a.poll_id, side |-> a.side,
     walletPrivateKey |-> a.wallet_private_key,
     slippage |-> IF Has(a, "slippage") THEN a.slippage ELSE 50]

\* lines 188-203: the object handleVote returns; an undefined field is absent
NormalizeVoteResult(r) ==
    LET passed == {"vote_id", "transaction_signature", "voter_pubkey", "side",
                   "poll_id", "timestamp"} \cap DOMAIN r
    IN  [k \in passed |-> r[k]]
        @@ [success |-> TRUE]
        @@ (IF Truthy(r, "amount_paid_usdc_base_units")
            THEN [amount_paid_usdc |->
                     DividedBy(parseFloat(r.amount_paid_usdc_base_units), 1000000)]
            ELSE <<>>)
        @@ (IF Truthy(r, "quoted_amount_usdc_base_units")
            THEN [quoted_amount_usdc |->
                     DividedBy(parseFloat(r.quoted_amount_usdc_base_units), 1000000)]
            ELSE <<>>)
        @@ (IF Has(r, "actual_slippage") /\ NumberTruthy(r.actual_slippage)
            THEN [actual_slippage_percent |-> Times(r.actual_slippage, 100)]
            ELSE <<>>)

InitHandleVote ==
    /\ args \in ArgSets
    /\ processEnv \in EnvSets
    /\ toolPc = "start"
    /\ toolResult = Unset
    /\ toolName = Unset
    /\ handler = "handleVote"
    /\ params = Unset
    /\ pc = "idle"
    /\ x402Response = Unset
    /\ requirement = Unset
    /\ rpcUrl = ""
    /\ mint = Unset
    /\ instructions = <<>>
    /\ transaction = Unset
    /\ log = <<>>
    /\ result = Unset
    /\ failedAt = "none"
    /\ confirmPc = "idle"
    /\ confirmResult = Unset
    /\ OneAttempt

\* lines 160-182: validate the arguments, call executeVote, which runs up to
\* its first await
HandleVoteStarted ==
    LET valid == ValidateVoteArgs(args)
    IN  IF valid.threw
        THEN /\ toolPc' = "done"
             /\ toolResult' = valid
             /\ UNCHANGED <<params, pc, log, result, failedAt>>
        ELSE \E variant \in Variants :
                LET p == VoteParamsOf(args, variant)
                IN  /\ params' = p
                    /\ StartExecuteVote(p)
                    /\ toolPc' = "await_executeVote"
                    /\ UNCHANGED toolResult

\* variant: the key is looked at first, and executeVote runs before the other
\* arguments are checked
HandleVoteCalledKeyFirst ==
    /\ toolPc = "start"
    /\ IF ~Truthy(args, "wallet_private_key")
       THEN /\ toolPc' = "done"
            /\ toolResult' = Throw("wallet_private_key is required")
            /\ UNCHANGED <<params, pc, log, result, failedAt>>
       ELSE \E variant \in Variants :
               LET p == [variant |-> variant,
                         pollId |-> IF Has(args, "poll_id") THEN args.poll_id ELSE "undefined",
                         side |-> IF Has(args, "side") THEN args.side ELSE "undefined",
                         walletPrivateKey |-> args.wallet_private_key,
                         slippage |-> IF Has(args, "slippage") THEN args.slippage ELSE 50]
               IN  /\ params' = p
                   /\ StartExecuteVote(p)
                   /\ toolPc' = "await_executeVote"
                   /\ UNCHANGED toolResult
    /\ UNCHANGED <<toolName, handler, args, processEnv, confirmPc, confirmResult,
                   attempts, locals>>

\* handleVote called by a program
HandleVoteCalled ==
    /\ toolPc = "start"
    /\ HandleVoteStarted
    /\ UNCHANGED <<toolName, handler, args, processEnv, confirmPc, confirmResult,
                   attempts, locals>>

\* variant: a failed vote is thrown with a fixed message
HandleVoteReturnedGeneric ==
    /\ toolPc = "await_executeVote"
    /\ pc = "done"
    /\ toolPc' = "done"
    /\ toolResult' =
          IF ~result.success THEN Throw("Vote failed")
          ELSE Ok(NormalizeVoteResult(result))
    /\ UNCHANGED <<toolName, handler, params, args, processEnv, confirmPc,
                   confirmResult, attempts, pc, locals,
                   log, result, failedAt>>

\* lines 184-203: executeVote resolved
HandleVoteReturned ==
    /\ toolPc = "await_executeVote"
    /\ pc = "done"
    /\ toolPc' = "done"
    /\ toolResult' =
          IF ~result.success
          THEN Throw(IF Truthy(result, "error") THEN result.error ELSE "Vote failed")
          ELSE Ok(NormalizeVoteResult(result))
    /\ UNCHANGED <<toolName, handler, params, args, processEnv, confirmPc,
                   confirmResult, attempts, pc, locals,
                   log, result, failedAt>>

NextHandleVote ==
    \/ HandleVoteCalled
    \/ FacilitatorChallenge
    \/ FacilitatorFetchFails
    \/ FacilitatorAnswered
    \/ InitialFetchFails
    \/ InitialRejected
    \/ ChallengeUnparsable
    \/ ChallengeReceived
    \/ MintFails
    \/ MintAnswered
    \/ AccountInfoFails
    \/ AccountInfoAnswered
    \/ BlockhashFails
    \/ BlockhashAnswered
    \/ PaymentFetchFails
    \/ PaymentAnswered
    \/ HandleVoteReturned

SpecHandleVote == InitHandleVote /\ [][NextHandleVote]_vars

(***************************************************************************)
(* Futarchy402Client (client.ts 13-126) and the read handlers of           *)
(* src/tools/handlers.ts                                                   *)
(***************************************************************************)
\* JSON null
Null == [null |-> TRUE]

PollListText == "{\"polls\":[{\"id\":\"poll-1\",...}],\"pagination\":{...}}"
PollDetailsText == "{\"id\":\"poll-1\",...,\"votes\":[...]}"
PositionText == "{\"poll_id\":\"poll-1\",\"poll_status\":\"open\",...}"
PositionResolvedText == "{\"poll_id\":\"poll-1\",\"poll_status\":\"resolved\",...}"
StatsText == "{\"active_polls\":2,\"total_projects\":1,\"total_proposals\":3}"

\* a Poll (types.ts 9-39)
PollValue ==
    [id |-> "poll-1", status |-> "open", outcome |-> Null,
     poll_wallet_pubkey |-> "PollWallet",
     poll_pool_usdc_base_units |-> "10500000",
     yes_liquidity_usdc_base_units |-> "7000000",
     no_liquidity_usdc_base_units |-> "3500000",
     base_fee_usdc_base_units |-> "3500000",
     closes_at |-> "2025-02-01T00:00:00Z", created_at |-> "2025-01-01T00:00:00Z",
     proposals |-> [name |-> "Fund the bridge", description |-> "A grant",
                    amount_usdc_base_units |-> "10000000", to_pubkey |-> "PollWallet",
                    treasuries |-> [pubkey |-> "PollPda",
                                    projects |-> [name |-> "Bridges"]]],
     current_entry_fee_yes_usdc |-> Fraction(7, 2),
     current_entry_fee_no_usdc |-> Fraction(21, 2),
     implied_probability_yes |-> Fraction(2, 3),
     implied_probability_no |-> Fraction(1, 3),
     yes_votes |-> 2, no_votes |-> 1, total_votes |-> 3]

\* a Vote (types.ts 50-57)
VoteValue ==
    [id |-> "vote-1", voter_pubkey |-> "Alice", side |-> "yes",
     amount_paid_usdc_base_units |-> "10500000",
     transaction_signature |-> "sig-1", created_at |-> "2025-01-01T00:00:00Z"]

\* a Position (types.ts 63-84) in an open poll
PositionValue ==
    [poll_id |-> "poll-1", voter_pubkey |-> "Alice", poll_status |-> "open",
     poll_outcome |-> Null, vote_side |-> "yes",
     amount_paid_usdc |-> Fraction(21, 2),
     vote_timestamp |-> "2025-01-01T00:00:00Z",
     total_pot_usdc |-> Fraction(21, 1), same_side_total_usdc |-> Fraction(21, 2),
     user_share_of_side |-> Fraction(1, 1), yes_votes |-> 1, no_votes |-> 1,
     projected_winner |-> "tie", potential_payout_usdc |-> Fraction(21, 2),
     potential_profit_usdc |-> Fraction(0, 1), potential_roi_percent |-> Fraction(0, 1)]

\* response.json() of the client's answers
ClientJsonValue(text) ==
    CASE text = PollListText ->
            [polls |-> << PollValue >>,
             pagination |-> [limit |-> 20, offset |-> 0, total |-> 1]]
      [] text = PollDetailsText -> PollValue @@ [votes |-> << VoteValue >>]
      [] text = PositionText -> PositionValue
      [] text = PositionResolvedText ->
            [result |-> "won", actual_payout_usdc |-> Fraction(21, 1),
             actual_profit_usdc |-> Fraction(21, 2),
             actual_roi_percent |-> Fraction(100, 1),
             poll_status |-> "resolved", poll_outcome |-> "yes"] @@ PositionValue
      [] text = StatsText ->
            [active_polls |-> 2, total_projects |-> 1, total_proposals |-> 3]
      [] text = EmptyObjectText -> <<>>

ClientJson(url, text) ==
    IF text = NotJsonText THEN Throw(InvalidJsonMessage(url)) ELSE Ok(ClientJsonValue(text))

\* response.statusText
StatusText(status) ==
    CASE status = 200 -> "OK"
      [] status = 400 -> "Bad Request"
      [] status = 404 -> "Not Found"
      [] OTHER -> "Internal Server Error"

ClientStatuses == {200, 400, 404, 500}

\* parseFloat(x) / 1_000_000
Usdc(baseUnits) == DividedBy(parseFloat(baseUnits), 1000000)

\* a property of an object literal whose value is undefined is left out
Field(to, v, from) == IF Has(v, from) THEN to :> v[from] ELSE <<>>

RECURSIVE JoinParams(_)
JoinParams(parts) ==
    IF parts = <<>> THEN ""
    ELSE IF Len(parts) = 1 THEN parts[1]
    ELSE parts[1] \o "&" \o JoinParams(Tail(parts))

\* client.ts 39-52: the URL of listPolls, called by handleListPolls with
\* limit ?? 20 and offset ?? 0 (part_001 22-27)
ListPollsUrl(a) ==
    LET limit == IF Has(a, "limit") THEN a.limit ELSE 20
        offset == IF Has(a, "offset") THEN a.offset ELSE 0
        parts == (IF Truthy(a, "status") THEN << "status=" \o a.status >> ELSE <<>>)
                 \o (IF Truthy(a, "treasury_id")
                     THEN << "treasury_id=" \o a.treasury_id >> ELSE <<>>)
                 \o (IF limit # 0 THEN << "limit=" \o ToString(limit) >> ELSE <<>>)
                 \o (IF offset # 0 THEN << "offset=" \o ToString(offset) >> ELSE <<>>)
    IN  ApiBaseUrl \o "/polls" \o
        (IF parts = <<>> THEN "" ELSE "?" \o JoinParams(parts))

\* part_001 29-53: one entry of the list handleListPolls returns
PollSummary(poll) ==
    [id |-> poll.id, status |-> poll.status, outcome |-> poll.outcome,
     proposal_name |-> poll.proposals.name,
     proposal_description |-> poll.proposals.description,
     project_name |-> poll.proposals.treasuries.projects.name,
     amount_usdc |-> Usdc(poll.proposals.amount_usdc_base_units),
     total_liquidity_usdc |-> Usdc(poll.poll_pool_usdc_base_units),
     yes_liquidity_usdc |-> Usdc(poll.yes_liquidity_usdc_base_units),
     no_liquidity_usdc |-> Usdc(poll.no_liquidity_usdc_base_units),
     entry_fee_yes_usdc |-> poll.current_entry_fee_yes_usdc,
     entry_fee_no_usdc |-> poll.current_entry_fee_no_usdc,
     implied_probability_yes |-> poll.implied_probability_yes,
     implied_probability_no |-> poll.implied_probability_no,
     yes_votes |-> poll.yes_votes, no_votes |-> poll.no_votes,
     total_votes |-> poll.total_votes,
     closes_at |-> poll.closes_at, created_at |-> poll.created_at]

\* part_001 64-101: what handleGetPoll returns
PollReport(poll) ==
    [id |-> poll.id, status |-> poll.status, outcome |-> poll.outcome,
     proposal |-> [name |-> poll.proposals.name,
                   description |-> poll.proposals.description,
                   amount_usdc |-> Usdc(poll.proposals.amount_usdc_base_units),
                   to_pubkey |-> poll.proposals.to_pubkey,
                   project_name |-> poll.proposals.treasuries.projects.name],
     liquidity |-> [total_usdc |-> Usdc(poll.poll_pool_usdc_base_units),
                    yes_usdc |-> Usdc(poll.yes_liquidity_usdc_base_units),
                    no_usdc |-> Usdc(poll.no_liquidity_usdc_base_units),
                    base_fee_usdc |-> Usdc(poll.base_fee_usdc_base_units)],
     current_prices |-> [entry_fee_yes_usdc |-> poll.current_entry_fee_yes_usdc,
                         entry_fee_no_usdc |-> poll.current_entry_fee_no_usdc,
                         implied_probability_yes |-> poll.implied_probability_yes,
                         implied_probability_no |-> poll.implied_probability_no],
     vote_counts |-> [yes |-> poll.yes_votes, no |-> poll.no_votes,
                      total |-> poll.total_votes],
     votes |-> [i \in DOMAIN poll.votes |->
                   [id |-> poll.votes[i].id,
                    voter_pubkey |-> poll.votes[i].voter_pubkey,
                    side |-> poll.votes[i].side,
                    amount_paid_usdc |-> Usdc(poll.votes[i].amount_paid_usdc_base_units),
                    transaction_signature |-> poll.votes[i].transaction_signature,
                    created_at |-> poll.votes[i].created_at]],
     poll_wallet_pubkey |-> poll.poll_wallet_pubkey,
     closes_at |-> poll.closes_at, created_at |-> poll.created_at]

\* part_001 119-153: what handleGetPosition returns
PositionReport(position) ==
    Field("poll_id", position, "poll_id")
    @@ Field("voter_pubkey", position, "voter_pubkey")
    @@ Field("poll_status", position, "poll_status")
    @@ Field("poll_outcome", position, "poll_outcome")
    @@ Field("vote_side", position, "vote_side")
    @@ Field("amount_paid_usdc", position, "amount_paid_usdc")
    @@ Field("vote_timestamp", position, "vote_timestamp")
    @@ [pool_stats |->
           Field("total_pot_usdc", position, "total_pot_usdc")
           @@ Field("same_side_total_usdc", position, "same_side_total_usdc")
           @@ Field("user_share_of_side", position, "user_share_of_side")
           @@ Field("yes_votes", position, "yes_votes")
           @@ Field("no_votes", position, "no_votes"),
        projection |->
           Field("projected_winner", position, "projected_winner")
           @@ Field("potential_payout_usdc", position, "potential_payout_usdc")
           @@ Field("potential_profit_usdc", position, "potential_profit_usdc")
           @@ Field("potential_roi_percent", position, "potential_roi_percent"),
        actual_results |->
           IF Has(position, "poll_status") /\ position.poll_status = "resolved"
           THEN Field("result", position, "result")
                @@ Field("actual_payout_usdc", position, "actual_payout_usdc")
                @@ Field("actual_profit_usdc", position, "actual_profit_usdc")
                @@ Field("actual_roi_percent", position, "actual_roi_percent")
           ELSE Null]

\* part_001 210-216: what handleGetStats returns
StatsReport(stats) ==
    Field("active_polls", stats, "active_polls")
    @@ Field("total_projects", stats, "total_projects")
    @@ Field("total_proposals", stats, "total_proposals")

(***************************************************************************)
(* executeTool and the handler registry: src/tools/handlers.ts 221-244     *)
(***************************************************************************)
\* definitions.ts 151-157
ToolNames ==
    [LIST_POLLS |-> "futarchy_list_polls", GET_POLL |-> "futarchy_get_poll",
     GET_POSITION |-> "futarchy_get_position", VOTE |-> "futarchy_vote",
     GET_STATS |-> "futarchy_get_stats"]

\* the own properties of the registry object
toolHandlers ==
    (ToolNames.LIST_POLLS :> "handleListPolls")
    @@ (ToolNames.GET_POLL :> "handleGetPoll")
    @@ (ToolNames.GET_POSITION :> "handleGetPosition")
    @@ (ToolNames.VOTE :> "handleVote")
    @@ (ToolNames.GET_STATS :> "handleGetStats")

\* what the registry, an object literal, inherits from Object.prototype
ObjectPrototype ==
    ("toString" :> "Object.prototype.toString")
    @@ ("__proto__" :> "Object.prototype")

\* toolHandlers[toolName]: an own property, an inherited one, or undefined
Lookup(name) ==
    IF name \in DOMAIN toolHandlers THEN toolHandlers[name]
    ELSE IF name \in DOMAIN ObjectPrototype THEN ObjectPrototype[name]
    ELSE "undefined"

ReadHandlers == {"handleListPolls", "handleGetPoll", "handleGetPosition", "handleGetStats"}

\* names a caller may pass
ToolNameSets ==
    DOMAIN toolHandlers \cup {"unknown_tool", "", "toString", "__proto__"}

\* arguments a caller may pass, to whichever tool
ToolArgSets ==
    {<<>>,
     [status |-> "open", limit |-> 5, offset |-> 10],
     [poll_id |-> "poll-1"],
     [poll_id |-> "poll-1", voter_pubkey |-> "Alice"],
     [poll_id |-> "poll-1", side |-> "yes", wallet_private_key |-> "5Jalice"]}

\* a fetch with no options: GET
GetEvent(url) == [ev |-> "fetch", url |-> url, method |-> "GET", headers |-> <<>>]

\* a read handler up to its await: the argument checks and the URL the client
\* method fetches
StartReadHandler(h, a) ==
    CASE h = "handleListPolls" -> Ok(ListPollsUrl(a))
      [] h = "handleGetPoll" ->
            IF ~Truthy(a, "poll_id") THEN Throw("poll_id is required")
            ELSE Ok(ApiBaseUrl \o "/poll/" \o a.poll_id)
      [] h = "handleGetPosition" ->
            IF ~Truthy(a, "poll_id") THEN Throw("poll_id is required")
            ELSE IF ~Truthy(a, "voter_pubkey") THEN Throw("voter_pubkey is required")
            ELSE Ok(ApiBaseUrl \o "/poll/" \o a.poll_id \o "/position?voter_pubkey="
                    \o a.voter_pubkey)
      [] h = "handleGetStats" -> Ok(ApiBaseUrl \o "/stats")

\* the error a client method throws for an answer that is not ok
ClientErrorMessage(h, a, status) ==
    LET tail == ToString(status) \o " " \o StatusText(status)
    IN  CASE h = "handleListPolls" -> "Failed to list polls: " \o tail
          [] h = "handleGetPoll" ->
                IF status = 404 THEN "Poll not found: " \o a.poll_id
                ELSE "Failed to get poll: " \o tail
          [] h = "handleGetPosition" ->
                IF status = 404
                THEN "No position found for " \o a.voter_pubkey \o " in poll " \o a.poll_id
                ELSE IF status = 400 THEN "Missing voter_pubkey parameter"
                ELSE "Failed to get position: " \o tail
          [] h = "handleGetStats" -> "Failed to get stats: " \o tail

\* what the handler makes of the parsed body
HandlerReport(h, v) ==
    CASE h = "handleListPolls" ->
            IF ~Has(v, "polls")
            THEN Throw("Cannot read properties of undefined (reading 'map')")
            ELSE Ok([polls |-> [i \in DOMAIN v.polls |-> PollSummary(v.polls[i])]]
                    @@ Field("pagination", v, "pagination"))
      [] h = "handleGetPoll" ->
            IF ~Has(v, "proposals")
            THEN Throw("Cannot read properties of undefined (reading 'name')")
            ELSE Ok(PollReport(v))
      [] h = "handleGetPosition" -> Ok(PositionReport(v))
      [] h = "handleGetStats" -> Ok(StatsReport(v))

\* bodies the API may answer a read with
ClientBodies(h) ==
    {EmptyObjectText, NotJsonText}
    \cup (CASE h = "handleListPolls" -> {PollListText}
            [] h = "handleGetPoll" -> {PollDetailsText}
            [] h = "handleGetPosition" -> {PositionText, PositionResolvedText}
            [] h = "handleGetStats" -> {StatsText})

\* the client method and the handler after the answer
ClientOutcome(h, a, url, status, text) ==
    IF ~ResponseOk(status) THEN Throw(ClientErrorMessage(h, a, status))
    ELSE LET body == ClientJson(url, text)
         IN  IF body.threw THEN body ELSE HandlerReport(h, body.value)

InitExecuteTool ==
    /\ toolName \in ToolNameSets
    /\ args \in ToolArgSets
    /\ processEnv = <<>>
    /\ toolPc = "start"
    /\ toolResult = Unset
    /\ handler = Unset
    /\ params = Unset
    /\ pc = "idle"
    /\ x402Response = Unset
    /\ requirement = Unset
    /\ rpcUrl = ""
    /\ mint = Unset
    /\ instructions = <<>>
    /\ transaction = Unset
    /\ log = <<>>
    /\ result = Unset
    /\ failedAt = "none"
    /\ confirmPc = "idle"
    /\ confirmResult = Unset
    /\ OneAttempt

\* lines 233-244: look the handler up and call it; the handler runs up to its
\* first await
ExecuteToolCalled ==
    /\ toolPc = "start"
    /\ LET h == Lookup(toolName)
       IN  /\ handler' = h
           /\ CASE h = "undefined" ->
                      /\ toolPc' = "done"
                      /\ toolResult' = Throw("Unknown tool: " \o toolName)
                      /\ UNCHANGED <<params, pc, log, result, failedAt>>
                [] h = "handleVote" -> HandleVoteStarted
                [] h \in ReadHandlers ->
                      LET started == StartReadHandler(h, args)
                      IN  /\ IF started.threw
                             THEN /\ toolPc' = "done"
                                  /\ toolResult' = started
                                  /\ UNCHANGED log
                             ELSE /\ toolPc' = "await_client"
                                  /\ log' = Append(log, GetEvent(started.value))
                                  /\ UNCHANGED toolResult
                          /\ UNCHANGED <<params, pc, result, failedAt>>
                [] h = "Object.prototype.toString" ->
                      \* called with no receiver in strict mode
                      /\ toolPc' = "done"
                      /\ toolResult' = Ok("[object Undefined]")
                      /\ UNCHANGED <<params, pc, log, result, failedAt>>
                [] h = "Object.prototype" ->
                      /\ toolPc' = "done"
                      /\ toolResult' = Throw("handler is not a function")
                      /\ UNCHANGED <<params, pc, log, result, failedAt>>
    /\ UNCHANGED <<toolName, args, processEnv, confirmPc, confirmResult, attempts,
                   locals>>

\* the fetch of the client method rejects
ClientFetchFails ==
    /\ toolPc = "await_client"
    /\ \E reason \in TransportReasons :
          /\ toolResult' = Throw(FetchErrorMessage(log[Len(log)].url, reason))
          /\ log' = Append(log, FetchFailedEvent("client", reason))
    /\ toolPc' = "done"
    /\ UNCHANGED <<toolName, handler, args, processEnv, params, confirmPc,
                   confirmResult, attempts, pc, locals, result, failedAt>>

\* the API answered the client method
ClientAnswered ==
    /\ toolPc = "await_client"
    /\ \E status \in ClientStatuses, text \in ClientBodies(handler) :
          /\ toolResult' = ClientOutcome(handler, args, log[Len(log)].url, status, text)
          /\ log' = Append(log, ResponseEvent("client", status, text))
    /\ toolPc' = "done"
    /\ UNCHANGED <<toolName, handler, args, processEnv, params, confirmPc,
                   confirmResult, attempts, pc, locals, result, failedAt>>

NextExecuteTool ==
    \/ ExecuteToolCalled
    \/ ClientFetchFails
    \/ ClientAnswered
    \/ FacilitatorChallenge
    \/ FacilitatorFetchFails
    \/ FacilitatorAnswered
    \/ InitialFetchFails
    \/ InitialRejected
    \/ ChallengeUnparsable
    \/ ChallengeReceived
    \/ MintFails
    \/ MintAnswered
    \/ AccountInfoFails
    \/ AccountInfoAnswered
    \/ BlockhashFails
    \/ BlockhashAnswered
    \/ PaymentFetchFails
    \/ PaymentAnswered
    \/ HandleVoteReturned

SpecExecuteTool == InitExecuteTool /\ [][NextExecuteTool]_vars


(***************************************************************************)
(* executeVoteWithConfirmation of the facilitator variant: client.ts       *)
(* 557-637.  One function of its own: it does not call executeVote.        *)
(***************************************************************************)
\* the catch clause of lines 631-636
CatchResultWithConfirmation(message) ==
    [success |-> FALSE,
     error |-> IF message # "" THEN message
               ELSE "Unknown error during vote execution with confirmation"]

FailWithConfirmation(message, stage) ==
    Finish(CatchResultWithConfirmation(message), stage)

\* lines 575-580
ParsePaymentRequiredHeaderWithConfirmation(header) ==
    IF ~header.present
    THEN Throw("Missing X-Payment-Required header")
    ELSE IF ~header.json THEN Throw("Unexpected token o in JSON at position 1")
    ELSE Ok(header.value)

\* what sendRawTransaction resolves to and rejects with
SendSignatures == {"sig-chain-1"}
SendErrors == {"Transaction simulation failed: Blockhash not found"}

\* lines 592-607: from the facilitator's answer to the bytes handed to
\* sendRawTransaction and the endpoint they go to
PrepareBroadcast(status, parsed, keypair, paymentRequirements) ==
    IF ~ResponseOk(status) THEN Throw("Facilitator request failed")
    ELSE IF parsed.threw THEN parsed
    ELSE LET tx == TransactionFrom(parsed.value)
         IN  IF tx.threw THEN tx
             ELSE LET signed == PartialSign(tx.value, keypair)
                  IN  IF signed.threw THEN signed
                      ELSE LET rpc == getSolanaRpcUrl(paymentRequirements.network)
                               wire == SerializeLegacy(signed.value)
                           IN  IF rpc.threw THEN rpc
                               ELSE IF wire.threw THEN wire
                               ELSE Ok([transaction |-> signed.value,
                                        endpoint |-> rpc.value,
                                        wire |-> wire.value])

\* lines 622-630: { success: true, ...result, transaction_signature: signature }
SuccessResultWithConfirmation(body, signature) ==
    [transaction_signature |-> signature] @@ body @@ [success |-> TRUE]

\* lines 621-630: classify the answer to the proof-carrying request
PaymentOutcomeWithConfirmation(status, text, url, signature) ==
    IF ~ResponseOk(status)
    THEN Throw("Vote submission failed: " \o ToString(status))
    ELSE LET body == ResponseJson(url, text)
         IN  IF body.threw THEN body
             ELSE Ok(SuccessResultWithConfirmation(body.value, signature))

InitFacilitatorConfirmation ==
    /\ params \in {p \in ParamSets : p.variant = "facilitator"}
    /\ pc = "start"
    /\ x402Response = Unset
    /\ requirement = Unset
    /\ rpcUrl = ""
    /\ mint = Unset
    /\ instructions = <<>>
    /\ transaction = Unset
    /\ log = <<>>
    /\ result = Unset
    /\ failedAt = "none"
    /\ confirmPc = "idle"
    /\ confirmResult = Unset
    /\ NoToolCall
    /\ OneAttempt

\* lines 568-570
BeginWithConfirmation ==
    /\ pc = "start"
    /\ LET keypair == decodeWalletPrivateKey(params.walletPrivateKey)
       IN  IF keypair.threw
           THEN /\ FailWithConfirmation(keypair.message, "decode")
                /\ UNCHANGED log
           ELSE /\ pc' = "await_initial"
                /\ log' = Append(log, FetchEvent(voteUrl, <<>>))
                /\ UNCHANGED <<result, failedAt>>
    /\ UNCHANGED <<caller, locals>>

InitialFetchFailsWithConfirmation ==
    /\ pc = "await_initial"
    /\ \E reason \in TransportReasons :
          /\ FailWithConfirmation(FetchErrorMessage(voteUrl, reason), "initial_fetch")
          /\ log' = Append(log, FetchFailedEvent("initial", reason))
    /\ UNCHANGED <<caller, locals>>

\* lines 572-574: any status other than 402
InitialRejectedWithConfirmation ==
    /\ pc = "await_initial"
    /\ \E status \in InitialStatuses \ {402}, text \in BodyTexts :
          /\ FailWithConfirmation("Expected 402 Payment Required, got "
                                      \o ToString(status), "initial_status")
          /\ log' = Append(log, ResponseEvent("initial", status, text))
    /\ UNCHANGED <<caller, locals>>

\* lines 576-591: requirements from the header, ask the facilitator
ChallengeWithConfirmation ==
    /\ pc = "await_initial"
    /\ \E header \in PaymentRequiredHeaders :
          LET parsed == ParsePaymentRequiredHeaderWithConfirmation(header)
              answered == Append(log, ResponseEvent("initial", 402, "x402"))
          IN  IF parsed.threw
              THEN /\ FailWithConfirmation(parsed.message, "negotiate")
                   /\ log' = answered
                   /\ UNCHANGED requirement
              ELSE /\ requirement' = parsed.value
                   /\ log' = Append(answered,
                          FetchEvent(FacilitatorUrl \o "/settle",
                                     "Content-Type" :> "application/json") @@
                          [body |-> SettleRequest(voteUrl, parsed.value,
                                                  voterKeypair.publicKey)])
                   /\ pc' = "await_facilitator"
                   /\ UNCHANGED <<result, failedAt>>
    /\ UNCHANGED <<caller, x402Response, rpcUrl, mint, instructions, transaction>>

FacilitatorFetchFailsWithConfirmation ==
    /\ pc = "await_facilitator"
    /\ \E reason \in TransportReasons :
          /\ FailWithConfirmation(FetchErrorMessage(FacilitatorUrl \o "/settle", reason),
                                  "facilitator_fetch")
          /\ log' = Append(log, FetchFailedEvent("facilitator", reason))
    /\ UNCHANGED <<caller, locals>>

\* lines 592-607: the facilitator answered; sign and broadcast
FacilitatorAnsweredWithConfirmation ==
    /\ pc = "await_facilitator"
    /\ \E status \in FacilitatorStatuses,
          parsed \in {Throw(InvalidJsonMessage(FacilitatorUrl \o "/settle"))}
                     \cup {Ok(b) : b \in FacilitatorBodies(requirement)} :
          LET prepared == PrepareBroadcast(status, parsed, voterKeypair, requirement)
              answered == Append(log, ResponseEvent("facilitator", status,
                                     IF parsed.threw THEN NotJsonText ELSE "json"))
          IN  IF prepared.threw
              THEN /\ FailWithConfirmation(prepared.message, "facilitator")
                   /\ log' = answered
                   /\ UNCHANGED <<transaction, rpcUrl>>
              ELSE /\ transaction' = prepared.value.transaction
                   /\ rpcUrl' = prepared.value.endpoint
                   /\ log' = answered \o
                             << StepEvent("sign"),
                                RpcEvent("sendRawTransaction", prepared.value.endpoint,
                                         prepared.value.wire) >>
                   /\ pc' = "await_send"
                   /\ UNCHANGED <<result, failedAt>>
    /\ UNCHANGED <<caller, x402Response, requirement, mint, instructions>>

\* sendRawTransaction rejects
SendFails ==
    /\ pc = "await_send"
    /\ \E message \in SendErrors :
          /\ FailWithConfirmation(message, "sendRawTransaction")
          /\ log' = Append(log, [ev |-> "send_failed", reason |-> message])
    /\ UNCHANGED <<caller, locals>>

\* lines 605-609: the ledger took the transaction; wait for its confirmation
SendAnswered ==
    /\ pc = "await_send"
    /\ \E signature \in SendSignatures :
          log' = log \o << [ev |-> "sent", signature |-> signature],
                           RpcEvent("confirmTransaction", rpcUrl, signature) >>
    /\ pc' = "await_confirmation"
    /\ UNCHANGED <<caller, locals, result, failedAt>>

\* confirmTransaction rejects
ConfirmFailsWithConfirmation ==
    /\ pc = "await_confirmation"
    /\ \E message \in ConfirmationErrors :
          /\ FailWithConfirmation(message, "confirmTransaction")
          /\ log' = Append(log, ConfirmationFailedEvent(message))
    /\ UNCHANGED <<caller, locals>>

\* lines 609-619: confirmed; now the vote is submitted with the transaction
ConfirmAnsweredWithConfirmation ==
    /\ pc = "await_confirmation"
    /\ \E value \in ConfirmationValues :
          log' = log \o << [ev |-> "confirmation", value |-> value],
                           FetchEvent(voteUrl,
                               "X-Payment" :> Base64(SerializeLegacy(transaction).value)) >>
    /\ pc' = "await_payment"
    /\ UNCHANGED <<caller, locals, result, failedAt>>

PaymentFetchFailsWithConfirmation ==
    /\ pc = "await_payment"
    /\ \E reason \in TransportReasons :
          /\ FailWithConfirmation(FetchErrorMessage(voteUrl, reason), "payment_fetch")
          /\ log' = Append(log, FetchFailedEvent("payment", reason))
    /\ UNCHANGED <<caller, locals>>

\* the signature sendRawTransaction resolved to
BroadcastSignature == log[CHOOSE i \in DOMAIN log : log[i].ev = "sent"].signature

PaymentAnsweredWithConfirmation ==
    /\ pc = "await_payment"
    /\ \E status \in PaymentStatuses, text \in BodyTexts :
          LET outcome == PaymentOutcomeWithConfirmation(status, text, voteUrl,
                                                        BroadcastSignature)
          IN  /\ log' = Append(log, ResponseEvent("payment", status, text))
              /\ IF outcome.threw
                 THEN FailWithConfirmation(outcome.message,
                           IF ResponseOk(status) THEN "payment_parse"
                           ELSE "payment_status")
                 ELSE Finish(outcome.value, "none")
    /\ UNCHANGED <<caller, locals>>

NextFacilitatorConfirmation ==
    \/ BeginWithConfirmation
    \/ InitialFetchFailsWithConfirmation
    \/ InitialRejectedWithConfirmation
    \/ ChallengeWithConfirmation
    \/ FacilitatorFetchFailsWithConfirmation
    \/ FacilitatorAnsweredWithConfirmation
    \/ SendFails
    \/ SendAnswered
    \/ ConfirmFailsWithConfirmation
    \/ ConfirmAnsweredWithConfirmation
    \/ PaymentFetchFailsWithConfirmation
    \/ PaymentAnsweredWithConfirmation

SpecFacilitatorConfirmation ==
    InitFacilitatorConfirmation /\ [][NextFacilitatorConfirmation]_vars

(***************************************************************************)
(* A caller that tries again: after a failed attempt executeVote is called *)
(* a second time with the same VoteParams.  Every binding of the function  *)
(* (client.ts 207-345, 456-514) is a const of the call, so the second call *)
(* starts with none of them; what the first attempt selected and sent is   *)
(* kept as history in `previous`.                                          *)
(***************************************************************************)
RetryParamSets ==
    {p \in ParamSets : /\ p.walletPrivateKey = "5Jalice"
                       /\ p.pollId = "poll-1"
                       /\ p.side = "yes"
                       /\ ~Has(p, "slippage")}

ProofsSent == {log[i].headers["X-Payment"] : i \in ProofRequests}

InitRetry ==
    /\ Init
    /\ params \in RetryParamSets

\* variant: the challenge is remembered across calls, and the second call of
\* the direct variant goes on from the requirement of the first
RetryFromRememberedChallenge ==
    /\ pc = "done"
    /\ previous = Unset
    /\ result.success = FALSE
    /\ previous' = [requirement |-> requirement, transaction |-> transaction,
                    proofs |-> ProofsSent]
    /\ IF params.variant = "direct" /\ requirement # Unset /\ rpcUrl # ""
       THEN /\ pc' = "await_mint"
            /\ log' = << RpcEvent("getMint", rpcUrl, requirement.asset) >>
            /\ UNCHANGED <<x402Response, requirement, rpcUrl>>
       ELSE /\ pc' = "start"
            /\ log' = <<>>
            /\ x402Response' = Unset
            /\ requirement' = Unset
            /\ rpcUrl' = ""
    /\ mint' = Unset
    /\ instructions' = <<>>
    /\ transaction' = Unset
    /\ result' = Unset
    /\ failedAt' = "none"
    /\ UNCHANGED <<params, confirmPc, confirmResult, tool, suspended>>

\* the failed call has returned and executeVote is called again
Retry ==
    /\ pc = "done"
    /\ previous = Unset
    /\ result.success = FALSE
    /\ previous' = [requirement |-> requirement, transaction |-> transaction,
                    proofs |-> ProofsSent]
    /\ pc' = "start"
    /\ log' = <<>>
    /\ x402Response' = Unset
    /\ requirement' = Unset
    /\ rpcUrl' = ""
    /\ mint' = Unset
    /\ instructions' = <<>>
    /\ transaction' = Unset
    /\ result' = Unset
    /\ failedAt' = "none"
    /\ UNCHANGED <<params, confirmPc, confirmResult, tool, suspended>>

NextRetry ==
    \/ Retry
    \/ Begin
    \/ FacilitatorChallenge
    \/ FacilitatorFetchFails
    \/ FacilitatorAnswered
    \/ InitialFetchFails
    \/ InitialRejected
    \/ ChallengeUnparsable
    \/ ChallengeReceived
    \/ MintFails
    \/ MintAnswered
    \/ AccountInfoFails
    \/ AccountInfoAnswered
    \/ BlockhashFails
    \/ BlockhashAnswered
    \/ PaymentFetchFails
    \/ PaymentAnswered

SpecRetry == InitRetry /\ [][NextRetry]_vars

(***************************************************************************)
(* Two calls of executeVote in flight at once.  JavaScript runs one call   *)
(* at a time and moves to another at an await; the bindings of a call are  *)
(* consts of its own invocation (client.ts 207-345, 456-514), so the call  *)
(* that waits keeps its own in `suspended` while the other one steps.      *)
(***************************************************************************)
Frame(p, at, x402, req, url, m, ins, tx, l, res, failed) ==
    [params |-> p, pc |-> at, x402Response |-> x402, requirement |-> req,
     rpcUrl |-> url, mint |-> m, instructions |-> ins, transaction |-> tx,
     log |-> l, result |-> res, failedAt |-> failed]

\* the frame of a call that has not run yet
NewFrame(p) == Frame(p, "start", Unset, Unset, "", Unset, <<>>, Unset, <<>>, Unset, "none")

\* the frame of the call that is running
Running ==
    Frame(params, pc, x402Response, requirement, rpcUrl, mint, instructions,
          transaction, log, result, failedAt)

\* one call of each variant, for different polls and sides
ConcurrentParams ==
    {[variant |-> "direct", pollId |-> "poll-1", side |-> "yes",
      walletPrivateKey |-> "5Jalice"],
     [variant |-> "facilitator", pollId |-> "poll-2", side |-> "no",
      walletPrivateKey |-> "5Jalice"]}

InitConcurrent ==
    /\ \E first \in ConcurrentParams, second \in ConcurrentParams :
          /\ first # second
          /\ params = first
          /\ suspended = NewFrame(second)
    /\ pc = "start"
    /\ x402Response = Unset
    /\ requirement = Unset
    /\ rpcUrl = ""
    /\ mint = Unset
    /\ instructions = <<>>
    /\ transaction = Unset
    /\ log = <<>>
    /\ result = Unset
    /\ failedAt = "none"
    /\ confirmPc = "idle"
    /\ confirmResult = Unset
    /\ NoToolCall
    /\ previous = Unset

\* variant: the selected requirement is one binding of the module, written by
\* whichever call negotiated last
SwitchSharedRequirement ==
    /\ suspended.pc # "done"
    /\ suspended' = Running
    /\ params' = suspended.params
    /\ pc' = suspended.pc
    /\ x402Response' = suspended.x402Response
    /\ UNCHANGED requirement
    /\ rpcUrl' = suspended.rpcUrl
    /\ mint' = suspended.mint
    /\ instructions' = suspended.instructions
    /\ transaction' = suspended.transaction
    /\ log' = suspended.log
    /\ result' = suspended.result
    /\ failedAt' = suspended.failedAt
    /\ UNCHANGED <<confirmPc, confirmResult, tool, previous>>

\* the running call waits at its await (or has returned) and the other call,
\* which has not returned, goes on
Switch ==
    /\ suspended.pc # "done"
    /\ suspended' = Running
    /\ params' = suspended.params
    /\ pc' = suspended.pc
    /\ x402Response' = suspended.x402Response
    /\ requirement' = suspended.requirement
    /\ rpcUrl' = suspended.rpcUrl
    /\ mint' = suspended.mint
    /\ instructions' = suspended.instructions
    /\ transaction' = suspended.transaction
    /\ log' = suspended.log
    /\ result' = suspended.result
    /\ failedAt' = suspended.failedAt
    /\ UNCHANGED <<confirmPc, confirmResult, tool, previous>>

NextConcurrent ==
    \/ Switch
    \/ Begin
    \/ FacilitatorChallenge
    \/ FacilitatorFetchFails
    \/ FacilitatorAnswered
    \/ InitialFetchFails
    \/ InitialRejected
    \/ ChallengeUnparsable
    \/ ChallengeReceived
    \/ MintFails
    \/ MintAnswered
    \/ AccountInfoFails
    \/ AccountInfoAnswered
    \/ BlockhashFails
    \/ BlockhashAnswered
    \/ PaymentFetchFails
    \/ PaymentAnswered

SpecConcurrent == InitConcurrent /\ [][NextConcurrent]_vars


(***************************************************************************)
(* Statements about an attempt                                             *)
(***************************************************************************)
\* the attempt has issued the request without proof and nothing else
OnlyInitialRequest ==
    /\ Len(log) >= 1
    /\ log[1] = FetchEvent(voteUrl, <<>>)
    /\ \A i \in DOMAIN log : i > 1 => log[i].ev \in {"response", "fetch_failed"}
    /\ transaction = Unset
    /\ instructions = <<>>

Failed(message) == pc = "done" /\ result = [success |-> FALSE, error |-> message]

(***************************************************************************)
(* C1  executeVote always resolves to a VoteResult; no state other than a  *)
(* returned result is final, and every path that threw returns             *)
(* success = false with a non-empty error string.                          *)
(***************************************************************************)
C1_AlwaysReturnsResult ==
    /\ pc # "done" => ENABLED Next
    /\ pc = "done" =>
          /\ Has(result, "success")
          /\ result.success \in BOOLEAN
          /\ failedAt # "none" =>
                /\ result.success = FALSE
                /\ Has(result, "error")
                /\ result.error # ""

\* a ledger error without message reaches the caller through the fallback text
C1_Witness ==
    /\ pc = "done"
    /\ failedAt = "getMint"
    /\ result = [success |-> FALSE, error |-> "Unknown error during vote execution"]

(***************************************************************************)
(* C2  Within one attempt at most one request carrying X-Payment is        *)
(* issued, whatever happens to it.                                         *)
(***************************************************************************)
C2_AtMostOneProofRequest == Cardinality(ProofRequests) <= 1

\* the proof was sent, the request failed in transport, the attempt is over
C2_Witness ==
    /\ pc = "done"
    /\ failedAt = "payment_fetch"
    /\ Cardinality(ProofRequests) = 1
    /\ log[Len(log)].ev = "fetch_failed"

(***************************************************************************)
(* C3  A transport failure of the proof-carrying request is reported so    *)
(* that the caller can tell it from a failure before any transfer: the     *)
(* result differs from every result a transport failure of the proof-less  *)
(* request of the same call produces.                                      *)
(***************************************************************************)
NegotiationTransportResults ==
    {CatchResult(FetchErrorMessage(voteUrl, reason)) : reason \in TransportReasons}

C3_SubmissionFailureDistinct ==
    (pc = "done" /\ failedAt = "payment_fetch") =>
        result \notin NegotiationTransportResults

(***************************************************************************)
(* C4  A 409 answer to the proof-carrying request always ends the attempt  *)
(* with the slippage-exceeded failure, whatever the body holds.            *)
(***************************************************************************)
SlippageExceededMessage ==
    "Slippage exceeded: Entry fee changed too much. Try again with higher slippage."

C4_ConflictIsSlippageExceeded ==
    Responses("payment", 409) # {} => Failed(SlippageExceededMessage)

\* a 409 whose body is a complete vote receipt
C4_Witness ==
    /\ pc = "done"
    /\ \E i \in Responses("payment", 409) : log[i].body = VoteAcceptedText
    /\ result.success = FALSE

(***************************************************************************)
(* C5  In the direct variant the transfer instruction of the compiled      *)
(* transaction carries exactly the amount the requirement names, for       *)
(* every poll, side and slippage of the call.                              *)
(***************************************************************************)
TransferInstructions(tx) ==
    {i \in DOMAIN tx.message.instructions :
        tx.message.instructions[i].op = "TransferChecked"}

C5_AmountVerbatim ==
    (params.variant = "direct" /\ transaction # Unset) =>
        /\ TransferInstructions(transaction) # {}
        /\ \A i \in TransferInstructions(transaction) :
              /\ ToString(transaction.message.instructions[i].amount)
                    = x402Response.accepts[1].maxAmountRequired
              /\ transaction.message.instructions[i].amount >= 1

\* the largest quoted amount, with a caller-chosen slippage
C5_Witness ==
    /\ params.variant = "direct"
    /\ transaction # Unset
    /\ Has(params, "slippage")
    /\ \E i \in TransferInstructions(transaction) :
          transaction.message.instructions[i].amount = AmountUnit * MaxAmountUnits

(***************************************************************************)
(* C6  The answer to the proof-less request is classified by status:       *)
(* 400 -> invalid request with the server's detail, 403 -> duplicate vote, *)
(* 404 -> poll not found, other -> unexpected status; nothing is built,    *)
(* signed or submitted.                                                    *)
(***************************************************************************)
C6_InitialStatusClassified ==
    \A i \in DOMAIN log :
        (log[i].ev = "response" /\ log[i].of = "initial" /\ log[i].status # 402) =>
            /\ OnlyInitialRequest
            /\ pc = "done"
            /\ result.success = FALSE
            /\ CASE log[i].status = 400 ->
                        result.error = "Invalid vote request: " \o log[i].body
                 [] log[i].status = 403 ->
                        result.error = "Duplicate vote: You have already voted on this poll"
                 [] log[i].status = 404 ->
                        result.error = "Poll not found: " \o params.pollId
                 [] OTHER ->
                        result.error = "Expected 402 Payment Required, got "
                                           \o ToString(log[i].status)

(***************************************************************************)
(* C7  A 402 challenge whose accepts list is empty or missing ends the     *)
(* attempt with the no-accepted-payment-method failure: no requirement is  *)
(* used, no ledger read, no signature, no proof.                           *)
(***************************************************************************)
NoAccepts(x402) == ~Has(x402, "accepts") \/ Len(x402.accepts) = 0

C7_EmptyAcceptsFailsClosed ==
    (params.variant = "direct" /\ x402Response # Unset /\ NoAccepts(x402Response)) =>
        /\ Failed(NoPaymentMethodsMessage)
        /\ requirement = Unset
        /\ OnlyInitialRequest
        /\ LedgerCalls = {}

C7_Witness ==
    /\ params.variant = "direct"
    /\ x402Response # Unset
    /\ Has(x402Response, "accepts")
    /\ x402Response.accepts = <<>>
    /\ Failed(NoPaymentMethodsMessage)

(***************************************************************************)
(* C8  The requirement selected is the lowest-index entry of accepts that  *)
(* qualifies; when entry 0 does not qualify and a later one does, the      *)
(* later one is selected.  Qualification is taken as the code's own test.  *)
(***************************************************************************)
Qualifying(accepts) == {i \in DOMAIN accepts : isSolanaPayment(accepts[i])}
Lowest(S) == CHOOSE i \in S : \A j \in S : i <= j

C8_SelectsFirstQualifying ==
    (/\ params.variant = "direct"
     /\ x402Response # Unset
     /\ ~NoAccepts(x402Response)
     /\ Qualifying(x402Response.accepts) # {}) =>
        /\ requirement = x402Response.accepts[Lowest(Qualifying(x402Response.accepts))]
        /\ ~Failed(UnsupportedSchemeMessage(x402Response.accepts[1]))

(***************************************************************************)
(* C9  A requirement is used only if its scheme is recognized and its      *)
(* network is a Solana network; otherwise the attempt ends with the        *)
(* unsupported-scheme failure.                                             *)
(***************************************************************************)
SchemeRecognized(r) == r.scheme \in {"solana", "exact"}
NetworkSupported(r) == Has(r, "network") /\ ~getSolanaRpcUrl(r.network).threw

C9_QualifiesNeedsBoth ==
    (/\ params.variant = "direct"
     /\ requirement # Unset
     /\ ~(SchemeRecognized(requirement) /\ NetworkSupported(requirement))) =>
        Failed(UnsupportedSchemeMessage(requirement))

(***************************************************************************)
(* C10  Within an attempt negotiate, build, sign and submit happen in      *)
(* this order: a signature is made only after a 402 answer and the         *)
(* selection of a requirement and after the transaction was obtained, the  *)
(* proof is sent only after the signature, and nothing is built, signed    *)
(* or sent when negotiation failed.                                        *)
(***************************************************************************)
Before(S, i) == \E j \in S : j < i

TransactionObtained ==
    IF params.variant = "direct"
    THEN Events("compile")
    ELSE {i \in DOMAIN log : IsResponse(log[i], "facilitator", 200)}

NegotiationFailures ==
    {"decode", "initial_fetch", "initial_status", "challenge_parse", "negotiate"}

C10_StrictOrder ==
    /\ \A i \in Events("sign") :
          /\ Before(Responses("initial", 402), i)
          /\ Before(TransactionObtained, i)
          /\ requirement # Unset
    /\ \A i \in TransactionObtained : Before(Responses("initial", 402), i)
    /\ \A i \in ProofRequests :
          /\ Before(Events("sign"), i)
          /\ transaction.signatures[voterKeypair.publicKey] # <<>>
    /\ failedAt \in NegotiationFailures =>
          /\ Events("sign") = {} /\ Events("compile") = {} /\ ProofRequests = {}
          /\ transaction = Unset

\* all four steps of the direct variant have happened
C10_Witness ==
    /\ params.variant = "direct"
    /\ pc = "await_payment"
    /\ Events("compile") # {} /\ Events("sign") # {} /\ ProofRequests # {}

(***************************************************************************)
(* C11  A negotiation failure ends the attempt: the attempt issues exactly *)
(* one request without proof to the vote endpoint, never a second one,     *)
(* and once negotiation has failed the attempt is over with no ledger      *)
(* call and no other request on record.                                    *)
(***************************************************************************)
ProofLessRequests ==
    {i \in DOMAIN log : /\ log[i].ev = "fetch"
                        /\ log[i].url = voteUrl
                        /\ ~Has(log[i].headers, "X-Payment")}

NetworkCalls == {i \in DOMAIN log : log[i].ev \in {"fetch", "rpc"}}

NegotiationFailed ==
    failedAt \in {"initial_fetch", "initial_status", "challenge_parse", "negotiate"}

C11_NegotiationFailureTerminal ==
    /\ Cardinality(ProofLessRequests) <= 1
    /\ (pc # "start" /\ failedAt # "decode") => ProofLessRequests = {1}
    /\ NegotiationFailed =>
          /\ pc = "done"
          /\ ~ENABLED Next
          /\ NetworkCalls = {1}
          /\ LedgerCalls = {}

\* the proof-less request failed in transport and nothing followed it
C11_Witness ==
    /\ failedAt = "initial_fetch"
    /\ ProofLessRequests = {1}
    /\ log[Len(log)].ev = "fetch_failed"

(***************************************************************************)
(* C12  A call whose wallet key does not decode returns a failure naming   *)
(* the key, and has issued no request to the vote endpoint, to a           *)
(* facilitator or to the ledger, and has signed nothing.                   *)
(***************************************************************************)
KeyMalformed == params.walletPrivateKey # "5Jalice"

C12_MalformedKeyNoEffects ==
    KeyMalformed =>
        /\ log = <<>>
        /\ transaction = Unset
        /\ requirement = Unset
        /\ pc \in {"start", "done"}
        /\ pc = "done" =>
              /\ result.success = FALSE
              /\ Includes(result.error, "Invalid wallet private key: ")

\* the call with the key 'invalid-key' has returned
C12_Witness ==
    /\ params.walletPrivateKey = "invalid-key"
    /\ pc = "done"
    /\ result.success = FALSE
    /\ log = <<>>

(***************************************************************************)
(* C13  When the selected requirement names no fee payer in its extra map, *)
(* the attempt fails with the missing-fee-payer failure before any ledger  *)
(* query (getMint, getAccountInfo, getLatestBlockhash) and before any      *)
(* signature.                                                              *)
(***************************************************************************)
MissingFeePayerMessage == "Payment requirements do not include a fee payer"

NamesFeePayer(r) == Has(r, "extra") /\ Truthy(r.extra, "feePayer")

C13_FeePayerCheckedBeforeLedger ==
    (/\ params.variant = "direct"
     /\ requirement # Unset
     /\ ~NamesFeePayer(requirement)) =>
        /\ LedgerCalls = {}
        /\ Events("sign") = {}
        /\ (pc = "done" /\ failedAt \notin NegotiationFailures) =>
              Failed(MissingFeePayerMessage)

CreateInstructions(tx) ==
    {i \in DOMAIN tx.message.instructions :
        tx.message.instructions[i].op = "CreateAssociatedTokenAccount"}

FeePayerIsRequirements ==
    (params.variant = "direct" /\ transaction # Unset) =>
        /\ transaction.message.payerKey = requirement.extra.feePayer
        /\ \A i \in CreateInstructions(transaction) :
              transaction.message.instructions[i].payer = requirement.extra.feePayer
        /\ \A i \in TransferInstructions(transaction) :
              transaction.message.instructions[i].owner = voterKeypair.publicKey
        /\ voterKeypair.publicKey \in transaction.message.signers

C15_VoterNeverPays ==
    /\ FeePayerIsRequirements
    /\ (params.variant = "direct" /\ transaction # Unset) =>
          /\ transaction.message.payerKey # voterKeypair.publicKey
          /\ \A i \in CreateInstructions(transaction) :
                transaction.message.instructions[i].payer # voterKeypair.publicKey

(***************************************************************************)
(* C16  The instruction list the client compiles holds a                   *)
(* create-holding-account instruction exactly when getAccountInfo reported *)
(* the recipient's holding account absent; it holds exactly one transfer,  *)
(* which is the last instruction, and a creation comes before it.          *)
(***************************************************************************)
AccountReports == {i \in DOMAIN log : log[i].ev = "account_info"}

OpsAt(list, op) == {i \in DOMAIN list : list[i].op = op}

C16_CreateIffAbsent ==
    (params.variant = "direct" /\ instructions # <<>>) =>
        LET creates == OpsAt(instructions, "CreateAssociatedTokenAccount")
            transfers == OpsAt(instructions, "TransferChecked")
        IN  /\ Cardinality(AccountReports) = 1
            /\ \A r \in AccountReports :
                  /\ (creates # {}) <=> ~log[r].found
                  /\ \A c \in creates :
                        instructions[c].associatedToken = log[r].account
            /\ Cardinality(creates) <= 1
            /\ transfers = {Len(instructions)}
            /\ \A c \in creates : \A t \in transfers : c < t
            /\ transaction # Unset =>
                  transaction.message.instructions = instructions

\* the ledger found the account, and the compiled list has no creation
C16_Witness ==
    /\ params.variant = "direct"
    /\ transaction # Unset
    /\ \E r \in AccountReports : log[r].found
    /\ OpsAt(transaction.message.instructions, "CreateAssociatedTokenAccount") = {}
    /\ Len(transaction.message.instructions) = 3

(***************************************************************************)
(* C17  A non-2xx answer other than 409 to the proof-carrying request      *)
(* ends the attempt with a failure, never a success, whose reason is the   *)
(* vote-failed text carrying the error detail of the server's body.        *)
(***************************************************************************)
RejectedSubmissions ==
    {i \in DOMAIN log : /\ log[i].ev = "response"
                        /\ log[i].of = "payment"
                        /\ ~(log[i].status \in 200..299)
                        /\ log[i].status # 409}

RejectedSubmissionFails ==
    RejectedSubmissions # {} => (pc = "done" /\ result.success = FALSE)

C17_RejectionCarriesDetail ==
    /\ RejectedSubmissionFails
    /\ \A i \in RejectedSubmissions :
          result.error = "Vote failed: " \o log[i].body

(***************************************************************************)
(* C18  The request carrying the proof goes to the same URL, with the same *)
(* method, as the request without proof of the same attempt: the same      *)
(* poll, side and slippage.  The two requests differ in their headers      *)
(* only.                                                                   *)
(***************************************************************************)
SlippageText == IF Has(params, "slippage") THEN NumberText(params.slippage) ELSE "0.05"

C18_SameTarget ==
    \A i \in ProofRequests :
        /\ log[1].ev = "fetch"
        /\ log[i].url = log[1].url
        /\ log[i].method = log[1].method
        /\ \A k \in DOMAIN log[1] \ {"headers"} : log[i][k] = log[1][k]
        /\ Has(log[i].headers, "X-Payment")
        /\ log[i].url = ApiBaseUrl \o "/poll/" \o params.pollId \o "/vote?side="
                            \o params.side \o "&slippage=" \o SlippageText

\* a proof sent for poll-2, side no, with the caller's slippage of 0.1
C18_Witness ==
    /\ ProofRequests # {}
    /\ params.pollId = "poll-2"
    /\ params.side = "no"
    /\ Has(params, "slippage") /\ params.slippage = 100
    /\ params.variant = "direct"

(***************************************************************************)
(* C19  Every proof sent, by the local builder or by the facilitator       *)
(* variant, is the encoded payload made of the protocol version of the     *)
(* challenge, the scheme and network of the selected requirement and the   *)
(* serialized signed transaction.                                          *)
(***************************************************************************)
IsProofPayload(proof) ==
    /\ Has(proof, "base64")
    /\ Has(proof.base64, "json")
    /\ LET payload == proof.base64.json
       IN  /\ DOMAIN payload = {"x402Version", "scheme", "network", "payload"}
           /\ payload.scheme = requirement.scheme
           /\ payload.network = requirement.network
           /\ payload.payload = [transaction |-> [base64 |-> [wire |-> transaction]]]
           /\ transaction.signatures[voterKeypair.publicKey] # <<>>

DirectProofIsPayload ==
    \A i \in ProofRequests :
        params.variant = "direct" =>
            /\ IsProofPayload(log[i].headers["X-Payment"])
            /\ log[i].headers["X-Payment"].base64.json.x402Version
                  = x402Response.x402Version

C19_ProofIsPayload ==
    /\ DirectProofIsPayload
    /\ \A i \in ProofRequests : IsProofPayload(log[i].headers["X-Payment"])

(***************************************************************************)
(* C20  executeVoteWithConfirmation (direct variant): when the vote was    *)
(* accepted and the wait for confirmation fails, the result keeps          *)
(* success = true and every field of the vote and only gains the           *)
(* confirmation-failed text; when the vote failed, no confirmation is      *)
(* asked for and the failure is returned as it is.                         *)
(***************************************************************************)
ConfirmationRequests ==
    {i \in DOMAIN log : log[i].ev = "rpc" /\ log[i].method = "confirmTransaction"}

ConfirmationFailures == {i \in DOMAIN log : log[i].ev = "confirmation_failed"}

C20_ConfirmationFailureKeepsVote ==
    /\ ConfirmationRequests # {} =>
          (pc = "done" /\ result.success = TRUE)
    /\ confirmPc = "done" =>
          /\ ~result.success =>
                (confirmResult = result /\ ConfirmationRequests = {})
          /\ result.success =>
                /\ confirmResult.success = TRUE
                /\ \A k \in DOMAIN result : confirmResult[k] = result[k]
                /\ DOMAIN confirmResult \subseteq DOMAIN result \cup {"error"}
          /\ \A i \in ConfirmationFailures :
                /\ confirmResult.success = TRUE
                /\ confirmResult.error =
                      "Vote submitted but confirmation failed: " \o log[i].reason
          /\ (ConfirmationFailures = {} /\ ConfirmationRequests # {}) =>
                confirmResult = result

\* the vote was accepted, the confirmation timed out
C20_Witness ==
    /\ confirmPc = "done"
    /\ ConfirmationFailures # {}
    /\ confirmResult.success = TRUE
    /\ confirmResult.vote_id = "vote-1"
    /\ confirmResult.transaction_signature = "sig-1"
    /\ Has(confirmResult, "error")

(***************************************************************************)
(* C21  In the entry points that confirm on-chain, the client touches the  *)
(* ledger for broadcast or confirmation only after the server accepted the *)
(* proof: no attempt in which the client itself broadcast the transfer     *)
(* ends as a failed vote.                                                  *)
(***************************************************************************)
Broadcasts ==
    {i \in DOMAIN log : log[i].ev = "rpc" /\ log[i].method = "sendRawTransaction"}

AcceptedProofs ==
    {i \in DOMAIN log : /\ log[i].ev = "response"
                        /\ log[i].of = "payment"
                        /\ log[i].status \in 200..299}

OnChainActivity ==
    {i \in DOMAIN log : /\ log[i].ev = "rpc"
                        /\ log[i].method \in {"sendRawTransaction", "confirmTransaction"}}

C21_BroadcastOnlyAfterAcceptance ==
    /\ \A i \in OnChainActivity : Before(AcceptedProofs, i)
    /\ (pc = "done" /\ Broadcasts # {}) => result.success = TRUE

(***************************************************************************)
(* C22  After a successful vote handleVote returns amount_paid_usdc and    *)
(* quoted_amount_usdc equal to the server's base units divided by          *)
(* 1,000,000 and actual_slippage_percent equal to actual_slippage times    *)
(* 100, and hands vote_id, transaction_signature, voter_pubkey, side,      *)
(* poll_id and timestamp on unchanged.                                     *)
(***************************************************************************)
VoteSucceeded == toolPc = "done" /\ pc = "done" /\ result.success

PassedThrough ==
    {"vote_id", "transaction_signature", "voter_pubkey", "side", "poll_id", "timestamp"}

\* the ratio x equals base / scale
IsQuotient(x, base, scale) == x.d # 0 /\ x.n * scale = base * x.d
\* the ratio x equals y times k
IsMultiple(x, y, k) == x.d # 0 /\ x.n * y.d = k * y.n * x.d

AmountsConverted(v) ==
    /\ Has(result, "amount_paid_usdc_base_units") =>
          /\ Has(v, "amount_paid_usdc")
          /\ IsQuotient(v.amount_paid_usdc,
                        ParseDigits(result.amount_paid_usdc_base_units), 1000000)
    /\ Has(result, "quoted_amount_usdc_base_units") =>
          /\ Has(v, "quoted_amount_usdc")
          /\ IsQuotient(v.quoted_amount_usdc,
                        ParseDigits(result.quoted_amount_usdc_base_units), 1000000)
    /\ \A k \in PassedThrough : Has(result, k) => (Has(v, k) /\ v[k] = result[k])

C22_ResultNormalized ==
    VoteSucceeded =>
        /\ ~toolResult.threw
        /\ toolResult.value.success = TRUE
        /\ AmountsConverted(toolResult.value)
        /\ Has(result, "actual_slippage") =>
              /\ Has(toolResult.value, "actual_slippage_percent")
              /\ IsMultiple(toolResult.value.actual_slippage_percent,
                            result.actual_slippage, 100)

(***************************************************************************)
(* C23  The result of handleVote holds actual_slippage_percent, equal to   *)
(* 100 times actual_slippage, whenever the server's body holds             *)
(* actual_slippage, the value 0 included, and only then.                   *)
(***************************************************************************)
C23_SlippagePercentPresent ==
    (VoteSucceeded /\ ~toolResult.threw) =>
        /\ Has(toolResult.value, "actual_slippage_percent")
              <=> Has(result, "actual_slippage")
        /\ Has(toolResult.value, "actual_slippage_percent") =>
              toolResult.value.actual_slippage_percent.n * result.actual_slippage.d
                 = 100 * result.actual_slippage.n
                       * toolResult.value.actual_slippage_percent.d

(***************************************************************************)
(* C24  handleVote checks its arguments in the order poll_id, side, side   *)
(* is yes or no, wallet_private_key, and rejects with the message of the   *)
(* first rule that fails; executeVote is then not called and no request    *)
(* is made.                                                                *)
(***************************************************************************)
Given(a, k) == k \in DOMAIN a /\ a[k] # ""

FirstViolation(a) ==
    CASE ~Given(a, "poll_id") -> "poll_id is required"
      [] Given(a, "poll_id") /\ ~Given(a, "side") -> "side is required"
      [] Given(a, "poll_id") /\ Given(a, "side") /\ a.side \notin {"yes", "no"} ->
            "side must be \"yes\" or \"no\""
      [] /\ Given(a, "poll_id") /\ Given(a, "side") /\ a.side \in {"yes", "no"}
         /\ ~Given(a, "wallet_private_key") -> "wallet_private_key is required"
      [] OTHER -> ""

KeyLeftToEnvironment ==
    /\ toolPc # "start"
    /\ Given(args, "poll_id")
    /\ Given(args, "side") /\ args.side \in {"yes", "no"}
    /\ ~Has(args, "wallet_private_key")
    /\ Has(processEnv, "WALLET_PRIVATE_KEY")

C25_EnvironmentKeyUsed ==
    KeyLeftToEnvironment =>
        /\ params # Unset
        /\ params.walletPrivateKey = processEnv.WALLET_PRIVATE_KEY
        /\ ~(/\ toolPc = "done"
             /\ toolResult.threw
             /\ toolResult.message = "wallet_private_key is required")

(***************************************************************************)
(* C26  With no slippage given by the caller, the request without a proof  *)
(* and the request with the proof both carry slippage 0.05; with a         *)
(* slippage given, 0 included, both carry exactly that value.              *)
(***************************************************************************)
CallerSlippageText ==
    IF Has(args, "slippage") THEN NumberText(args.slippage) ELSE "0.05"

VoteRequests == (IF Len(log) > 0 THEN {1} ELSE {}) \cup ProofRequests

C26_SlippageCarried ==
    \A i \in VoteRequests :
        /\ log[i].ev = "fetch"
        /\ log[i].url = ApiBaseUrl \o "/poll/" \o args.poll_id \o "/vote?side="
                            \o args.side \o "&slippage=" \o CallerSlippageText

\* a proof sent for a call that gave slippage 0
C26_Witness ==
    /\ ProofRequests # {}
    /\ Has(args, "slippage") /\ args.slippage = 0
    /\ \A i \in VoteRequests :
          log[i].url = ApiBaseUrl \o "/poll/poll-1/vote?side=" \o args.side \o "&slippage=0"

(***************************************************************************)
(* C27  A failed ledger read (mint, recipient account, blockhash) ends the *)
(* attempt with a failure that names the ledger, never the generic fault   *)
(* of the catch clause, and nothing is signed or submitted afterwards.     *)
(***************************************************************************)
LedgerReads == {"getMint", "getAccountInfo", "getLatestBlockhash"}

GenericFault == [success |-> FALSE, error |-> "Unknown error during vote execution"]

C27_LedgerFailureNamed ==
    failedAt \in LedgerReads =>
        /\ pc = "done"
        /\ result.success = FALSE
        /\ result # GenericFault
        /\ Events("sign") = {}
        /\ ProofRequests = {}

(***************************************************************************)
(* C28  Every proof an attempt submits is built from the requirement that  *)
(* the same attempt negotiated: the attempt began with the request without *)
(* proof and got its 402 before the proof, the transfer and the proof are  *)
(* made from the requirement of that answer, and nothing of an earlier     *)
(* attempt is sent again when the requirement has changed.                 *)
(***************************************************************************)
BuiltFromOwnChallenge(proof) ==
    /\ requirement = SelectRequirement(x402Response)
    /\ proof = PaymentHeader(PaymentPayload(x402Response, requirement, transaction))
    /\ TransferInstructions(transaction) # {}
    /\ \A k \in TransferInstructions(transaction) :
          LET t == transaction.message.instructions[k]
          IN
          /\ t.amount = BigInt(requirement.maxAmountRequired).value
          /\ t.mint = requirement.asset
          /\ t.destination =
                getAssociatedTokenAddress(requirement.asset, requirement.payTo).value

BuiltFromOwnSettlement(i, proof) ==
    /\ \E j \in DOMAIN log :
          /\ j < i
          /\ log[j].ev = "fetch"
          /\ Has(log[j], "body")
          /\ log[j].body = SettleRequest(voteUrl, requirement, voterKeypair.publicKey)
    /\ proof = Base64(Serialize(transaction))

C28_ProofFromOwnNegotiation ==
    \A i \in ProofRequests :
        LET proof == log[i].headers["X-Payment"]
        IN  /\ log[1] = FetchEvent(voteUrl, <<>>)
            /\ \E j \in Responses("initial", 402) : j < i
            /\ requirement # Unset
            /\ params.variant = "direct" => BuiltFromOwnChallenge(proof)
            /\ params.variant = "facilitator" => BuiltFromOwnSettlement(i, proof)
            /\ (previous # Unset /\ previous.requirement # requirement) =>
                  proof \notin previous.proofs

\* the second attempt sends its proof after the fee has changed since the
\* proof of the first attempt
C28_Witness ==
    /\ previous # Unset
    /\ previous.proofs # {}
    /\ ProofRequests # {}
    /\ params.variant = "direct"
    /\ previous.requirement.maxAmountRequired # requirement.maxAmountRequired
    /\ \A i \in ProofRequests : log[i].headers["X-Payment"] \notin previous.proofs

(***************************************************************************)
(* C29  Two attempts that run interleaved do not touch each other: in      *)
(* every interleaving each attempt's requests go to its own vote URL, its  *)
(* transaction and proof are made from the requirement it negotiated       *)
(* itself, and its outcome is the one its own last answer gives, as when   *)
(* the attempt runs alone.                                                 *)
(***************************************************************************)
VoterOf(f) == decodeWalletPrivateKey(f.params.walletPrivateKey).value.publicKey

\* the requests of the attempt: to its own vote URL, or to the facilitator
\* about its own vote URL and requirement
OwnRequests(f) ==
    \A i \in DOMAIN f.log :
        f.log[i].ev = "fetch" =>
            \/ f.log[i].url = VoteUrl(f.params)
            \/ /\ f.params.variant = "facilitator"
               /\ f.log[i].url = FacilitatorUrl \o "/settle"
               /\ f.log[i].body = SettleRequest(VoteUrl(f.params), f.requirement, VoterOf(f))

\* the compiled transaction and the proof of the attempt
OwnTransaction(f) ==
    /\ (f.params.variant = "direct" /\ f.requirement # Unset) =>
          /\ f.x402Response # Unset
          /\ f.requirement = SelectRequirement(f.x402Response)
    /\ (f.params.variant = "direct" /\ f.transaction # Unset) =>
          /\ f.transaction.message.payerKey = f.requirement.extra.feePayer
          /\ f.transaction.message.instructions = f.instructions
          /\ \E exists \in BOOLEAN :
                f.instructions = BuildInstructions(f.requirement, VoterOf(f),
                                                   f.mint.decimals, exists).value
    /\ (f.params.variant = "facilitator" /\ f.transaction # Unset) =>
          \E b \in FacilitatorBodies(f.requirement) :
              /\ Has(b, "transaction")
              /\ Has(b.transaction.base64, "wire")
              /\ f.transaction.message = b.transaction.base64.wire.message
    /\ \A i \in DOMAIN f.log :
          IsProofRequest(f.log[i]) =>
              f.log[i].headers["X-Payment"] =
                  IF f.params.variant = "direct"
                  THEN PaymentHeader(PaymentPayload(f.x402Response, f.requirement,
                                                    f.transaction))
                  ELSE Base64(Serialize(f.transaction))

\* what the attempt returns when the proof-carrying request is answered by
\* `e`, the last entry of its log
OutcomeOf(f, e) ==
    IF e.ev = "fetch_failed"
    THEN CatchResult(FetchErrorMessage(VoteUrl(f.params), e.reason))
    ELSE LET outcome == PaymentOutcome(e.status, e.body, VoteUrl(f.params))
         IN  IF outcome.threw THEN CatchResult(outcome.message) ELSE outcome.value

OwnOutcome(f) ==
    /\ f.pc = "done" <=> f.result # Unset
    /\ (f.pc = "done" /\ f.log # <<>> /\ f.log[Len(f.log)].ev \in {"response", "fetch_failed"}
          /\ f.log[Len(f.log)].of = "payment") =>
          f.result = OutcomeOf(f, f.log[Len(f.log)])
    /\ (f.pc = "done" /\ f.result.success) =>
          /\ f.log # <<>>
          /\ f.log[Len(f.log)].ev = "response"
          /\ f.log[Len(f.log)].of = "payment"

Undisturbed(f) == OwnRequests(f) /\ OwnTransaction(f) /\ OwnOutcome(f)

SignedByVoterOnly(unsigned) ==
    /\ transaction.message = unsigned.message
    /\ DOMAIN transaction.signatures = DOMAIN unsigned.signatures
    /\ voterKeypair.publicKey \in DOMAIN transaction.signatures
    /\ \A k \in DOMAIN transaction.signatures :
          transaction.signatures[k] =
              IF k = voterKeypair.publicKey
              THEN Ed25519Sign(voterKeypair, unsigned.message)
              ELSE unsigned.signatures[k]

ProofCarries(tx) ==
    \A i \in ProofRequests :
        LET proof == log[i].headers["X-Payment"]
        IN  IF params.variant = "direct"
            THEN proof.base64.json.payload.transaction.base64.wire = tx
            ELSE proof.base64.wire = tx

C30_SigningKeepsMessage ==
    Events("sign") # {} =>
        /\ params.variant = "direct" =>
              \E blockhash \in Blockhashes :
                  SignedByVoterOnly(VersionedTransaction(
                      CompileMessage(requirement.extra.feePayer, blockhash,
                                     instructions)))
        /\ params.variant = "facilitator" =>
              \E b \in FacilitatorBodies(requirement) :
                  /\ ~TransactionFrom(b).threw
                  /\ SignedByVoterOnly(TransactionFrom(b).value)
        /\ ProofCarries(transaction)

\* the direct variant signed a transaction whose fee payer is not the voter:
\* the fee payer's slot stays empty and the proof is sent
C30_Witness ==
    /\ Events("sign") # {}
    /\ params.variant = "direct"
    /\ ProofRequests # {}
    /\ transaction.message.payerKey = "FeePayer"
    /\ transaction.signatures["FeePayer"] = <<>>
    /\ transaction.signatures["Alice"] = Ed25519Sign(voterKeypair, transaction.message)
    /\ Len(transaction.message.instructions) = 4

(***************************************************************************)
(* C31  The secret key stays in the process: no request to the vote        *)
(* endpoint, the facilitator or the ledger and no returned result holds    *)
(* the base58 secret or the secret key bytes, and what is sent depends on  *)
(* the key only through the public identity and the signature made with    *)
(* it.                                                                     *)
(***************************************************************************)
Secrets ==
    {params.walletPrivateKey}
    \cup (IF decodeWalletPrivateKey(params.walletPrivateKey).threw THEN {}
          ELSE {voterKeypair.secretKey})

Clean(s) == \A k \in Secrets : ~Includes(s, k)

CleanInstruction(ins) ==
    CASE ins.op = "TransferChecked" ->
            /\ Clean(ins.source) /\ Clean(ins.mint)
            /\ Clean(ins.destination) /\ Clean(ins.owner)
      [] ins.op = "CreateAssociatedTokenAccount" ->
            /\ Clean(ins.payer) /\ Clean(ins.associatedToken)
            /\ Clean(ins.owner) /\ Clean(ins.mint)
      [] OTHER -> DOMAIN ins \subseteq {"op", "units", "microLamports"}

\* the voter's identity as anyone may know it
PublicIdentity == [publicKey |-> voterKeypair.publicKey]

CleanTransaction(tx) ==
    /\ DOMAIN tx = {"message", "signatures"}
    /\ Clean(tx.message.payerKey)
    /\ Clean(tx.message.recentBlockhash)
    /\ \A i \in DOMAIN tx.message.instructions :
          CleanInstruction(tx.message.instructions[i])
    /\ \A k \in tx.message.signers : Clean(k)
    /\ \A k \in DOMAIN tx.signatures :
          /\ Clean(k)
          /\ \/ tx.signatures[k] = <<>>
             \/ tx.signatures[k] = Ed25519Sign([publicKey |-> k], tx.message)
    /\ tx.signatures[voterKeypair.publicKey] = Ed25519Sign(PublicIdentity, tx.message)

CleanProof(proof) ==
    IF params.variant = "direct"
    THEN LET payload == proof.base64.json
         IN  /\ DOMAIN payload = {"x402Version", "scheme", "network", "payload"}
             /\ Clean(payload.x402Version)
             /\ Clean(payload.scheme)
             /\ Clean(payload.network)
             /\ DOMAIN payload.payload = {"transaction"}
             /\ CleanTransaction(payload.payload.transaction.base64.wire)
    ELSE CleanTransaction(proof.base64.wire)

CleanRequest(e) ==
    /\ DOMAIN e \subseteq {"ev", "url", "method", "headers", "body"}
    /\ Clean(e.url)
    /\ DOMAIN e.headers \subseteq {"Content-Type", "X-Payment"}
    /\ Has(e.headers, "X-Payment") => CleanProof(e.headers["X-Payment"])
    /\ Has(e, "body") =>
          IF params.variant = "direct"
          THEN e.body = EmptyObjectText
          ELSE /\ DOMAIN e.body = {"resourceUrl", "paymentRequirements", "walletPublicKey"}
               /\ Clean(e.body.resourceUrl)
               /\ e.body.walletPublicKey = PublicIdentity.publicKey
               /\ e.body.paymentRequirements = requirement

CleanLedgerCall(e) ==
    /\ DOMAIN e = {"ev", "method", "endpoint", "about"}
    /\ Clean(e.method) /\ Clean(e.endpoint) /\ Clean(e.about)

CleanResult ==
    /\ ~Has(result, "secretKey")
    /\ ~Has(result, "walletPrivateKey")
    /\ Has(result, "error") => Clean(result.error)

C32_AttemptReturns == <>(pc = "done")


\* C33: executeTool invokes exactly the handler registered under the given tool
\* name; for any name that is not one of the five registered tools it throws
\* 'Unknown tool: <name>' without invoking any handler or making any network
\* request.
C33_DispatchByRegisteredName ==
    toolPc # "start" =>
        IF toolName \in DOMAIN toolHandlers
        THEN handler = toolHandlers[toolName]
        ELSE /\ handler = "undefined"
             /\ toolPc = "done"
             /\ toolResult = Throw("Unknown tool: " \o toolName)
             /\ log = <<>>
             /\ pc = "idle"


(***************************************************************************)
(* C34  executeVote returns success=true if and only if the initial        *)
(* request was answered 402 with a usable requirement, every build step    *)
(* succeeded, and the single proof-carrying request was answered with a    *)
(* 2xx status whose body parsed; in every other execution it returns       *)
(* success=false.                                                          *)
(***************************************************************************)
\* the 402 answer held a requirement the attempt could use
UsableRequirement ==
    /\ Responses("initial", 402) # {}
    /\ requirement # Unset
    /\ params.variant = "direct" =>
          x402Response # Unset /\ ~Negotiate(x402Response).threw

\* the transaction was obtained and signed
BuildSucceeded ==
    /\ TransactionObtained # {}
    /\ Events("sign") # {}
    /\ transaction # Unset

\* answers to the proof-carrying request with a 2xx status and a body that parses
AcceptedAnswers ==
    {i \in DOMAIN log :
        /\ log[i].ev = "response" /\ log[i].of = "payment"
        /\ ResponseOk(log[i].status)
        /\ ~ResponseJson(voteUrl, log[i].body).threw}

\* C34: a finished attempt reports success exactly when negotiation, building
\* and the one proof-carrying request all went through.
C34_SuccessIffAllStepsPassed ==
    pc = "done" =>
        /\ result.success \in BOOLEAN
        /\ result.success <=>
              /\ UsableRequirement
              /\ BuildSucceeded
              /\ Cardinality(ProofRequests) = 1
              /\ AcceptedAnswers # {}

\* an accepted vote on record
C34_Witness ==
    /\ pc = "done"
    /\ result.success
    /\ UsableRequirement /\ BuildSucceeded /\ AcceptedAnswers # {}


(***************************************************************************)
(* C35  The value returned by executeVote is a proper tagged union: when   *)
(* success=true the error field is absent, and when success=false the      *)
(* error field is a non-empty string and none of the vote fields is        *)
(* present.                                                                *)
(***************************************************************************)
VoteFields ==
    {"vote_id", "transaction_signature", "amount_paid_usdc_base_units",
     "quoted_amount_usdc_base_units", "actual_slippage", "voter_pubkey",
     "side", "poll_id", "timestamp"}

\* C35: a returned value either reports success without an error field, or
\* reports failure with a non-empty error text and no vote field.
C35_TaggedUnion ==
    pc = "done" =>
        IF result.success
        THEN /\ ~Has(result, "error")
             /\ DOMAIN result \subseteq VoteFields \cup {"success"}
        ELSE /\ DOMAIN result = {"success", "error"}
             /\ result.error # ""

\* success after a 2xx answer whose body holds an error field
C35_Witness ==
    /\ pc = "done"
    /\ result.success
    /\ \E i \in AcceptedAnswers : log[i].body = ErrorDetailText


(***************************************************************************)
(* C36  At the tool layer, handleVote returns a value only for accepted    *)
(* votes: whenever executeVote returns success=false, handleVote throws an *)
(* Error whose message is exactly the failure reason reported by           *)
(* executeVote (or 'Vote failed' when that reason is empty), so the        *)
(* original detail is preserved.                                           *)
(***************************************************************************)
\* what handleVote throws for a failed vote
ThrownForFailure ==
    Throw(IF Has(result, "error") /\ result.error # "" THEN result.error
          ELSE "Vote failed")

\* C36: handleVote returns a value only after executeVote reported success,
\* and throws executeVote's own failure reason otherwise.
C36_FailureRethrown ==
    toolPc = "done" =>
        /\ ~toolResult.threw =>
              /\ pc = "done" /\ result.success
              /\ AcceptedAnswers # {}
              /\ toolResult.value.success
        /\ (pc = "done" /\ ~result.success) => toolResult = ThrownForFailure

\* a rejected submission whose detail reaches the caller of the tool
C36_Witness ==
    /\ toolPc = "done"
    /\ pc = "done" /\ ~result.success
    /\ failedAt = "payment_status"
    /\ toolResult.threw
    /\ toolResult.message = "Vote failed: " \o ErrorDetailText


(***************************************************************************)
(* C37  executeVoteWithConfirmation waits for confirmation on the same     *)
(* ledger network that the selected payment requirement named and on which *)
(* the transfer transaction was built; it never waits on a different       *)
(* network than the one the transaction targets.                           *)
(***************************************************************************)
ConfirmationCalls ==
    {i \in DOMAIN log : log[i].ev = "rpc" /\ log[i].method = "confirmTransaction"}

\* C37: every confirmTransaction call goes to the endpoint of the network the
\* selected requirement named, the one the transaction was built against.
C37_ConfirmsOnRequirementNetwork ==
    \A i \in ConfirmationCalls :
        /\ requirement # Unset
        /\ log[i].endpoint = getSolanaRpcUrl(requirement.network).value
        /\ log[i].endpoint = rpcUrl


(***************************************************************************)
(* C38  The facilitator-based executeVoteWithConfirmation reports the same *)
(* failure kinds as executeVote for the same server responses: initial     *)
(* 400, 403 and 404 are reported as invalid request, duplicate vote and    *)
(* poll not found, and a 409 on submission is reported as slippage         *)
(* exceeded.                                                               *)
(***************************************************************************)
\* what executeVote returns for these answers
ExecuteVoteOnInitial(status, text) ==
    CatchResult(InitialStatusError(status, text, voteUrl, params.pollId).message)
ExecuteVoteOnSubmission(status, text) ==
    CatchResult(PaymentOutcome(status, text, voteUrl).message)

\* C38: for an initial 400, 403 or 404 and for a 409 on submission, the value
\* returned is the one executeVote returns for the same answer.
C38_SameFailureKinds ==
    \A i \in DOMAIN log :
        /\ (log[i].ev = "response" /\ log[i].of = "initial"
                /\ log[i].status \in {400, 403, 404}) =>
              pc = "done" /\ result = ExecuteVoteOnInitial(log[i].status, log[i].body)
        /\ (log[i].ev = "response" /\ log[i].of = "payment" /\ log[i].status = 409) =>
              pc = "done" /\ result = ExecuteVoteOnSubmission(409, log[i].body)


(***************************************************************************)
(* C39  In the facilitator variant of executeVote, a 402 response without  *)
(* the X-Payment-Required header, or a non-2xx response from the           *)
(* facilitator, ends the attempt with a failure; in both cases nothing is  *)
(* signed and no proof-carrying request is sent to the vote endpoint.      *)
(***************************************************************************)
\* 402 answers that came without the X-Payment-Required header
HeaderlessChallenges ==
    {i \in Responses("initial", 402) :
        Has(log[i], "responseHeaders") /\ ~log[i].responseHeaders.present}

\* answers of the facilitator with a status outside 200..299
FacilitatorRefusals ==
    {i \in DOMAIN log :
        log[i].ev = "response" /\ log[i].of = "facilitator" /\ ~ResponseOk(log[i].status)}

FailedUnsigned ==
    /\ pc = "done"
    /\ ~result.success
    /\ Events("sign") = {}
    /\ transaction = Unset
    /\ ProofRequests = {}

\* C39: after a 402 answer without the header, or an answer of the facilitator
\* that is not 2xx, the attempt is over with a failure, nothing was signed and
\* no request carrying X-Payment was made.
C39_FacilitatorFailuresUnsigned ==
    params # Unset /\ params.variant = "facilitator" =>
        /\ HeaderlessChallenges # {} =>
              /\ FailedUnsigned
              /\ {i \in DOMAIN log : log[i].ev = "fetch"} = {1}
        /\ FacilitatorRefusals # {} => FailedUnsigned

\* the facilitator refused with a body that holds a transaction
C39_Witness ==
    /\ params.variant = "facilitator"
    /\ pc = "done"
    /\ failedAt = "facilitator"
    /\ FacilitatorRefusals # {}
    /\ result.error = "Facilitator error: Unknown error"

=============================================================================
